---------------------------- MODULE Spec2Model ----------------------------
(***************************************************************************)
(* Connection lifecycle of the pynobo client (src/pynobo/__init__.py):     *)
(* connect / handshake / bootstrap, the Keep-Alive and Receive tasks,      *)
(* reconnect_hub, stop and close, and the sync flag kept by               *)
(* response_handler.                                                       *)
(*                                                                         *)
(* Three sequential activities share the client object on one asyncio      *)
(* event loop: the caller of the facade ("caller"), the Keep-Alive task    *)
(* ("ka") and the Receive task ("rx").  A step of the model is the code    *)
(* one activity runs between two suspension points (await of a read, a     *)
(* sleep, a connect, another task).  The hub and the network are the       *)
(* environment: every read, write and connect ends with a frame or an      *)
(* error drawn from the sets below.                                        *)
(*                                                                         *)
(* The caller follows the lifecycle construct -> start -> stop: it calls   *)
(* start only when no task it created is still running, it may retry a     *)
(* start that raised, and it may call stop and send commands at any time.  *)
(***************************************************************************)
EXTENDS Naturals, FiniteSets, Sequences, TLC

\* Largest number of (ip, serial) pairs one discovery window returns.
MaxHubs == 2

\* api.py
START == "HELLO"
REJECT == "REJECT"
HANDSHAKE == "HANDSHAKE"
GET_ALL_INFO == "G00"
RESPONSE_SENDING_ALL_INFO == "H00"
RESPONSE_ZONE_INFO == "H01"
RESPONSE_COMPONENT_INFO == "H02"
RESPONSE_HUB_INFO == "H05"
RESPONSE_UPDATE_HUB_INFO == "V03"
RESPONSE_COMPONENT_TEMP == "Y02"
RESPONSE_ERROR == "E00"

\* In case any of these errors occurs after successful initial connection,
\* the client tries to reconnect (errno names).
RECONNECT_ERRORS ==
    {"ECONNRESET", "ECONNREFUSED", "EHOSTUNREACH", "EHOSTDOWN",
     "ENETDOWN", "ENETUNREACH", "ETIMEDOUT"}

\* OSError instances the network can produce: the errnos above and three
\* that are not in the list.
OSErrors == RECONNECT_ERRORS \cup {"EPIPE", "ECONNABORTED", "EIO"}

\* The errnos Python raises as subclasses of ConnectionError, the class
\* get_response and async_send_command catch.
ConnectionErrors == {"ECONNRESET", "ECONNREFUSED", "ECONNABORTED", "EPIPE"}

\* readuntil() at EOF before the delimiter (an EOFError, not an OSError).
IncompleteReadError == "IncompleteReadError"
\* asyncio.wait_for(..., timeout=5) expiring: carries no errno.
TimeoutError == "TimeoutError"
\* readuntil() on a frame longer than the stream limit (not an OSError).
LimitOverrunError == "LimitOverrunError"
\* An exception raised by response_handler on the frame it was given.
HandlerError == "HandlerError"

\* Failures of one readuntil() call.
ReadErrors == OSErrors \cup {IncompleteReadError, LimitOverrunError}
\* Failures of asyncio.open_connection under wait_for.
OpenErrors == OSErrors \cup {TimeoutError}

\* Opcodes the hub may send.  "E" is a frame whose whole first field is the
\* letter E; "ZZZ" is an opcode the dispatcher does not know.
Ops == {START, REJECT, HANDSHAKE, RESPONSE_SENDING_ALL_INFO, RESPONSE_ZONE_INFO,
        RESPONSE_COMPONENT_INFO, RESPONSE_HUB_INFO, RESPONSE_UPDATE_HUB_INFO,
        RESPONSE_COMPONENT_TEMP, RESPONSE_ERROR, "E", "ZZZ"}

\* A received frame: its opcode, and whether it carries all the fields the
\* opcode's record needs (short: the opcode alone).
HubFrames == [op : Ops, short : {FALSE}]
             \cup {[op |-> RESPONSE_COMPONENT_TEMP, short |-> TRUE]}

VARIABLES
    discover,           \* self.discover
    pinned_valid,       \* self.ip is set and len(self.serial) == 12
    writer,             \* self._writer is not None
    conn,               \* transport of the newest connection: "none", "open",
                        \* "eof" (peer closed), "closed" (closed here), or the
                        \* errno it was lost with
    hub_bound,          \* self.hub_ip / self.hub_serial have been assigned
    keep_alive,         \* self._keep_alive
    received_all_info,  \* self._received_all_info
    pc,                 \* where each activity is suspended
    cancel,             \* Task.cancel() requested and not yet delivered
    discovered_hubs,    \* candidates left in the local discovered_hubs set
    synced,             \* history: the newest connection finished bootstrap
    syncOpen,           \* history: an H00 was dispatched and no H05 since
    fatal,              \* history: why the Receive task went to stop()
    ev,                 \* history: what the last step did
    callbacks,          \* self._callbacks
    hub_info,           \* self.hub_info
    zones,              \* self.zones
    components,         \* self.components
    week_profiles,      \* self.week_profiles
    overrides,          \* self.overrides
    temperatures,       \* self.temperatures
    protocol,           \* the DiscoveryProtocol of the discovery window
    wire,               \* the bytes given to self._writer.write(), in order
    orphans             \* history: live tasks that no attribute refers to

vars == <<discover, pinned_valid, writer, conn, hub_bound, keep_alive,
          received_all_info, pc, cancel, discovered_hubs, synced, syncOpen,
          fatal, ev, callbacks, hub_info, zones, components, week_profiles,
          overrides, temperatures, protocol, wire, orphans>>

\* No unhandled exception has reached socket_receive's last handler.
NoFatal == [cause |-> "-", at |-> "-", steady |-> FALSE]

NoEv == [by |-> "-", at |-> "-", recv |-> "-", dispatched |-> "-",
         sent |-> "-", sentBy |-> "-", failed |-> "-", created |-> FALSE,
         ret |-> "-", call |-> "-", invoked |-> <<>>, arg |-> "-",
         when |-> <<>>, result |-> "-", frame |-> <<>>, repeat |-> FALSE,
         before |-> 0, command |-> <<>>]

\* A parameter left at its default None.
None == "None"

\* No discovery window is open.
NoProtocol == [serial |-> "", ip |-> None, hubs |-> {}]

\* Every task created is the one self._keep_alive_task or
\* self._socket_receive_task refers to.
NoOrphans == [ka |-> 0, rx |-> 0]

\* The state as one record, so that the client's methods are functions
\* from state to state and compose the way the code calls them.
State ==
    [discover |-> discover, pinned_valid |-> pinned_valid, writer |-> writer,
     conn |-> conn, hub_bound |-> hub_bound, keep_alive |-> keep_alive,
     received_all_info |-> received_all_info, pc |-> pc, cancel |-> cancel,
     discovered_hubs |-> discovered_hubs, synced |-> synced,
     syncOpen |-> syncOpen, fatal |-> fatal, ev |-> NoEv,
     callbacks |-> callbacks, hub_info |-> hub_info, zones |-> zones,
     components |-> components, week_profiles |-> week_profiles,
     overrides |-> overrides, temperatures |-> temperatures,
     protocol |-> protocol, wire |-> wire, orphans |-> orphans]

Apply(t) ==
    /\ discover' = t.discover
    /\ pinned_valid' = t.pinned_valid
    /\ writer' = t.writer
    /\ conn' = t.conn
    /\ hub_bound' = t.hub_bound
    /\ keep_alive' = t.keep_alive
    /\ received_all_info' = t.received_all_info
    /\ pc' = t.pc
    /\ cancel' = t.cancel
    /\ discovered_hubs' = t.discovered_hubs
    /\ synced' = t.synced
    /\ syncOpen' = t.syncOpen
    /\ fatal' = t.fatal
    /\ ev' = t.ev
    /\ callbacks' = t.callbacks
    /\ hub_info' = t.hub_info
    /\ zones' = t.zones
    /\ components' = t.components
    /\ week_profiles' = t.week_profiles
    /\ overrides' = t.overrides
    /\ temperatures' = t.temperatures
    /\ protocol' = t.protocol
    /\ wire' = t.wire
    /\ orphans' = t.orphans

-----------------------------------------------------------------------------
(* Scheduling.  asyncio runs every callback that is already ready (a task  *)
(* just created, a task whose awaited future was cancelled or completed by *)
(* another task) before it polls the selector or the timers again, and in  *)
(* the order they became ready.                                            *)

\* Some task has a step that needs no I/O and no timer.
ReadyStep ==
    \/ cancel.ka
    \/ cancel.rx
    \/ pc.ka = "init"
    \/ pc.rx = "init"
    \/ pc.ka \in {"none", "done"} /\ "stop_ka" \in {pc.caller, pc.rx}

\* A read, a connect, a sleep or a discovery window may complete.
Quiescent == ~ReadyStep

\* The Receive task is inside reconnect_hub.
ReconnectPcs == {"rediscover", "sleep1", "sleep10", "r_open", "r_hello", "r_hs", "r_sync"}

\* The pc of activity p inside async_connect_hub: the caller runs it from
\* connect, the Receive task from reconnect_hub.
At(p, where) == IF p = "rx" THEN "r_" \o where ELSE where

-----------------------------------------------------------------------------
(* The client's methods, as functions on the state.                       *)

\* The transport can still carry a write.
Usable(c) == c \in {"open", "eof"}

\* wait_closed() raises the error the connection was lost with, and close()
\* suppresses only ConnectionError.
CloseRaises(c) == c \in OSErrors \ ConnectionErrors

\* close(); an exception that leaves it is put in ev.failed, and then
\* "self._writer = None" was not reached.
close(s) ==
    IF ~s.writer THEN s
    ELSE IF CloseRaises(s.conn) THEN [s EXCEPT !.ev.failed = s.conn]
    ELSE [s EXCEPT !.writer = FALSE,
                   !.conn = IF Usable(s.conn) THEN "closed" ELSE s.conn]

\* What a write can end with: "-" (written) or the errno the transport was
\* lost with.
SendOutcomes == {"-"} \cup OSErrors

\* by: who sends; e: the outcome of write() on a usable transport.  On a lost
\* transport drain() raises ConnectionResetError, or the error of the loss;
\* a ConnectionError is caught and close() called, whose wait_closed() raises
\* the error of the loss again.
async_send_command(s, by, op, e) ==
    IF ~s.writer THEN s
    ELSE IF Usable(s.conn) /\ e = "-"
         THEN [s EXCEPT !.ev.sent = op, !.ev.sentBy = by]
         ELSE close(IF Usable(s.conn) THEN [s EXCEPT !.conn = e] ELSE s)

\* What readuntil() can end with: o.err = "-" is a frame (o.op, o.short).
FrameOutcomes == {[err |-> "-", op |-> f.op, short |-> f.short] : f \in HubFrames}
ErrorOutcomes(errs) == {[err |-> e, op |-> "-", short |-> FALSE] : e \in errs}

\* A reader whose transport was lost raises the error of the loss; one
\* whose peer closed, or whose transport was closed here, is at EOF.
\* timed: the read runs under asyncio.wait_for.
ReadOutcomes(timed) ==
    IF conn = "open"
    THEN FrameOutcomes \cup ErrorOutcomes(ReadErrors)
         \cup (IF timed THEN ErrorOutcomes({TimeoutError}) ELSE {})
    ELSE IF conn \in OSErrors THEN ErrorOutcomes({conn})
    ELSE ErrorOutcomes({IncompleteReadError})

\* The transport after a failed read: asyncio closes it on an OSError; at
\* EOF it stays open for writing; a timeout or an overlong frame leaves it.
TransportAfter(c, e) ==
    IF e \in OSErrors THEN e
    ELSE IF e = IncompleteReadError /\ c = "open" THEN "eof"
    ELSE c

\* The frame is left in ev.recv, the exception raised in ev.failed.
get_response(s, o) ==
    IF o.err = "-" THEN [s EXCEPT !.ev.recv = o.op]
    ELSE LET t == [s EXCEPT !.ev.failed = o.err,
                            !.conn = TransportAfter(s.conn, o.err)]
         IN  IF o.err \in ConnectionErrors THEN close(t) ELSE t

\* response_handler raises on a record it cannot index (IndexError on a
\* temperature frame without fields) and on every component frame, where it
\* reads nobo.MODELS, an attribute the class does not define.
HandlerRaises(f) == f.short \/ f.op = RESPONSE_COMPONENT_INFO

response_handler_HubUpdateCompletes(s, f) ==
    LET d == [s EXCEPT !.ev.dispatched = f.op]
    IN  IF f.op = RESPONSE_SENDING_ALL_INFO THEN [d EXCEPT !.received_all_info = FALSE]
        ELSE IF HandlerRaises(f) THEN [d EXCEPT !.ev.failed = HandlerError]
        ELSE IF f.op \in {RESPONSE_HUB_INFO, RESPONSE_UPDATE_HUB_INFO}
             THEN [d EXCEPT !.received_all_info = TRUE]
        ELSE d

response_handler_HubUpdateClears(s, f) ==
    LET d == [s EXCEPT !.ev.dispatched = f.op]
    IN  IF f.op = RESPONSE_SENDING_ALL_INFO THEN [d EXCEPT !.received_all_info = FALSE]
        ELSE IF HandlerRaises(f) THEN [d EXCEPT !.ev.failed = HandlerError]
        ELSE IF f.op = RESPONSE_HUB_INFO THEN [d EXCEPT !.received_all_info = TRUE]
        ELSE IF f.op = RESPONSE_UPDATE_HUB_INFO
             THEN [d EXCEPT !.received_all_info = FALSE]
        ELSE d

\* The sync flag's part of response_handler.
response_handler(s, f) ==
    LET d == [s EXCEPT !.ev.dispatched = f.op]
    IN  IF f.op = RESPONSE_SENDING_ALL_INFO THEN [d EXCEPT !.received_all_info = FALSE]
        ELSE IF HandlerRaises(f) THEN [d EXCEPT !.ev.failed = HandlerError]
        ELSE IF f.op = RESPONSE_HUB_INFO THEN [d EXCEPT !.received_all_info = TRUE]
        ELSE d

\* response_handler, with the history of the sync in progress.
Dispatch(s, f) ==
    LET t == response_handler(s, f)
    IN  [t EXCEPT !.syncOpen = (f.op = RESPONSE_SENDING_ALL_INFO)
                               \/ (s.syncOpen /\ f.op # RESPONSE_HUB_INFO)]

\* stop() from "if self._socket_receive_task" on.  The second await is on
\* the Keep-Alive task again, which is done: it does not suspend.  close()
\* suspends in wait_closed() when there is a writer.  When the Receive task
\* runs this itself it has just cancelled itself, and the cancellation is
\* delivered at that suspension: "self._writer = None" is not reached.
\* On a transport that is already closed or lost wait_closed() does not
\* suspend: close() runs to its end, or raises.
stop_rest(s, p) ==
    LET c == IF s.pc.rx \in {"none", "done"} THEN s ELSE [s EXCEPT !.cancel.rx = TRUE]
        e == [c EXCEPT !.pc[p] = IF p = "rx" THEN "done" ELSE "idle",
                       !.cancel.rx = IF p = "rx" THEN FALSE ELSE @]
    IN  IF ~c.writer THEN [e EXCEPT !.ev.ret = "stop"]
        ELSE IF CloseRaises(c.conn)
             THEN [e EXCEPT !.ev.failed = c.conn, !.ev.ret = "stop_raised"]
        ELSE IF ~Usable(c.conn) THEN [e EXCEPT !.writer = FALSE, !.ev.ret = "stop"]
        ELSE IF p = "rx" THEN [e EXCEPT !.conn = "closed"]
        ELSE [c EXCEPT !.conn = "closed", !.pc.caller = "stop_close"]

\* stop() up to its first await: cancel the Keep-Alive task and wait for it.
\* Awaiting a Keep-Alive task that ended with an exception raises it.
stop(s, p) ==
    IF s.pc.ka \in {"init", "sleep"}
    THEN [s EXCEPT !.cancel.ka = TRUE, !.pc[p] = "stop_ka"]
    ELSE IF s.pc.ka = "failed"
         THEN [s EXCEPT !.pc[p] = IF p = "rx" THEN "done" ELSE "idle",
                        !.ev.ret = "stop_raised"]
    ELSE stop_rest(s, p)

\* socket_receive's "except Exception": log, then "await self.stop()".
Unhandled(s, cause) ==
    stop([s EXCEPT !.fatal = [cause |-> cause, at |-> s.ev.at,
                              steady |-> s.ev.at = "read" /\ s.synced]], "rx")

\* reconnect_hub up to its first await.  self.hub_serial exists only after
\* a handshake has succeeded.
reconnect_hub(s) ==
    LET t == [s EXCEPT !.keep_alive = FALSE]
    IN  IF t.discover
        THEN IF t.hub_bound THEN [t EXCEPT !.pc.rx = "rediscover"]
             ELSE Unhandled(t, "AttributeError")
        ELSE [t EXCEPT !.pc.rx = "sleep10"]

\* start() after connect: create the two tasks.
start_tasks(s) ==
    [s EXCEPT !.pc.ka = "init", !.pc.rx = "init", !.pc.caller = "idle",
              !.cancel = [ka |-> FALSE, rx |-> FALSE], !.discovered_hubs = 0,
              !.ev.created = TRUE, !.ev.ret = "start_ok"]

start_raises_TasksAnyway(s) ==
    [start_tasks(s) EXCEPT !.ev.ret = "start_raised"]

\* An exception leaves connect(): start() raises it to its caller.
start_raises(s) ==
    [s EXCEPT !.pc.caller = "idle", !.discovered_hubs = 0, !.ev.ret = "start_raised"]

\* async_connect_hub returned True.
attempt_ok(s, p) ==
    IF p = "caller" THEN start_tasks(s)
    ELSE [s EXCEPT !.keep_alive = TRUE, !.pc.rx = "read", !.discovered_hubs = 0,
                   !.ev.ret = "reconnected"]

attempt_false_NoNextCandidate(s, p) ==
    IF p = "caller" THEN start_raises(s)
    ELSE IF s.discover /\ s.discovered_hubs > 0
         THEN [s EXCEPT !.discovered_hubs = @ - 1, !.pc[p] = At(p, "open")]
    ELSE IF s.discover
         THEN [s EXCEPT !.keep_alive = TRUE, !.pc.rx = "read", !.ev.ret = "reconnect_exhausted"]
         ELSE [s EXCEPT !.pc.rx = "sleep10"]

\* async_connect_hub returned False (REJECT): connect and reconnect_hub
\* pop the next candidate; the pinned reconnect loop sleeps and retries.
attempt_false(s, p) ==
    IF s.discover /\ s.discovered_hubs > 0
    THEN [s EXCEPT !.discovered_hubs = @ - 1, !.pc[p] = At(p, "open")]
    ELSE IF p = "caller" THEN start_raises(s)
    ELSE IF s.discover
         THEN [s EXCEPT !.keep_alive = TRUE, !.pc.rx = "read", !.ev.ret = "reconnect_exhausted"]
         ELSE [s EXCEPT !.pc.rx = "sleep10"]

\* async_connect_hub raised e.  reconnect_hub catches OSError and looks the
\* errno up; its pinned loop also suppresses asyncio.TimeoutError.
attempt_raised(s, p, e) ==
    LET t == [s EXCEPT !.ev.failed = e]
    IN  IF p = "caller" THEN start_raises(t)
        ELSE IF e \in OSErrors /\ e \in RECONNECT_ERRORS
             THEN IF t.discover
                  THEN [t EXCEPT !.discovered_hubs = @ + 1, !.pc.rx = "sleep1"]
                  ELSE [t EXCEPT !.pc.rx = "sleep10"]
        ELSE IF e = TimeoutError /\ ~t.discover THEN [t EXCEPT !.pc.rx = "sleep10"]
        ELSE Unhandled(t, e)

\* async_connect_hub after one of its sends: an exception that left
\* async_send_command leaves async_connect_hub too.
sent_or_raised(t, p) ==
    IF t.ev.failed # "-" THEN attempt_raised(t, p, t.ev.failed) ELSE t

-----------------------------------------------------------------------------
(* async_connect_hub, one action per await.  p is "caller" (connect) or    *)
(* "rx" (reconnect_hub).                                                   *)

Connectors == {"caller", "rx"}

Begin(p) == [State EXCEPT !.ev.by = p, !.ev.at = pc[p]]

\* open_connection completes; on success the HELLO frame is written before
\* the next await.
ConnOpen(p) ==
    /\ pc[p] = At(p, "open")
    /\ Quiescent
    /\ \E o \in ErrorOutcomes(OpenErrors \cup {"-"}), e \in SendOutcomes :
          LET s == Begin(p)
              opened == [s EXCEPT !.writer = TRUE, !.conn = "open", !.synced = FALSE,
                                  !.pc[p] = At(p, "hello")]
          IN  Apply(IF o.err = "-"
                    THEN sent_or_raised(async_send_command(opened, "connect", START, e), p)
                    ELSE attempt_raised(s, p, o.err))

\* The first handshake response.
ConnHello(p) ==
    /\ pc[p] = At(p, "hello")
    /\ Quiescent
    /\ \E o \in ReadOutcomes(TRUE), e \in SendOutcomes :
          LET r == get_response(Begin(p), o)
          IN  Apply(IF o.err # "-" THEN attempt_raised(r, p, o.err)
                    ELSE IF o.op = START
                         THEN sent_or_raised(
                                 async_send_command([r EXCEPT !.pc[p] = At(p, "hs")],
                                                    "connect", HANDSHAKE, e), p)
                    ELSE IF o.op = REJECT THEN attempt_false(close(r), p)
                    ELSE attempt_raised(r, p, "Exception"))

\* The second handshake response; on HANDSHAKE, _get_initial_data up to its
\* first read.
ConnHandshake(p) ==
    /\ pc[p] = At(p, "hs")
    /\ Quiescent
    /\ \E o \in ReadOutcomes(TRUE), e \in SendOutcomes :
          LET r == get_response(Begin(p), o)
              bound == [r EXCEPT !.hub_bound = TRUE, !.received_all_info = FALSE,
                                 !.pc[p] = At(p, "sync")]
          IN  Apply(IF o.err # "-" THEN attempt_raised(r, p, o.err)
                    ELSE IF o.op = HANDSHAKE
                         THEN sent_or_raised(
                                 async_send_command(bound, "connect", GET_ALL_INFO, e), p)
                    ELSE attempt_raised(close(r), p, "Exception"))

\* One turn of _get_initial_data's loop, under wait_for.
ConnSync(p) ==
    /\ pc[p] = At(p, "sync")
    /\ Quiescent
    /\ \E o \in ReadOutcomes(TRUE) :
          LET r == get_response(Begin(p), o)
              d == Dispatch(r, o)
          IN  Apply(IF o.err # "-" THEN attempt_raised(r, p, o.err)
                    ELSE IF d.ev.failed # "-" THEN attempt_raised(d, p, HandlerError)
                    ELSE IF d.received_all_info
                         THEN attempt_ok([d EXCEPT !.synced = TRUE], p)
                    ELSE d)

-----------------------------------------------------------------------------
(* The caller: start, stop, and a command sent through the facade.        *)

\* start(): connect when there is no writer, then create the tasks.
Start ==
    /\ pc.caller = "idle"
    /\ pc.ka \in {"none", "done", "failed"}
    /\ pc.rx \in {"none", "done"} \/ cancel.rx
    /\ LET s == [Begin("caller") EXCEPT !.fatal = NoFatal, !.ev.call = "start"]
       IN  Apply(IF s.writer THEN start_tasks(s)
                 ELSE IF s.discover THEN [s EXCEPT !.pc.caller = "discover"]
                 ELSE IF ~s.pinned_valid THEN start_raises([s EXCEPT !.ev.failed = "ValueError"])
                 ELSE [s EXCEPT !.pc.caller = "open"])

\* connect(): the discovery window closes with k hubs.
Discovered ==
    /\ pc.caller = "discover"
    /\ Quiescent
    /\ \E k \in 0..MaxHubs :
          LET s == Begin("caller")
          IN  Apply(IF k = 0 THEN start_raises([s EXCEPT !.ev.failed = "Exception"])
                    ELSE [s EXCEPT !.discovered_hubs = k - 1, !.pc.caller = "open"])

Stop ==
    /\ pc.caller = "idle"
    /\ Apply(stop([Begin("caller") EXCEPT !.ev.call = "stop"], "caller"))

\* The awaited Keep-Alive task is done: stop() goes on, in the caller or in
\* the Receive task.
StopResume(p) ==
    /\ pc[p] = "stop_ka"
    /\ pc.ka \in {"none", "done"}
    /\ Apply(stop_rest(Begin(p), p))

\* wait_closed() returns in the caller's stop(): "self._writer = None".  A
\* Receive task cancelled by this stop() handled the cancellation first.
StopClosed ==
    /\ pc.caller = "stop_close"
    /\ Quiescent
    /\ Apply([Begin("caller") EXCEPT !.writer = FALSE, !.pc.caller = "idle", !.ev.ret = "stop"])

\* async_send_command, async_create_override or async_update_zone.
FacadeSend ==
    /\ pc.caller = "idle"
    /\ \E e \in SendOutcomes :
          Apply(async_send_command([Begin("caller") EXCEPT !.ev.call = "facade"],
                                   "facade", "A03", e))

-----------------------------------------------------------------------------
(* The Keep-Alive task.                                                   *)

KeepAliveInit ==
    /\ pc.ka = "init"
    /\ ~cancel.ka
    /\ Apply([Begin("ka") EXCEPT !.keep_alive = TRUE, !.pc.ka = "sleep"])

\* The sleep ends; a heartbeat is sent unless Keep-Alive is paused.  An
\* exception that leaves async_send_command ends the task.
KeepAliveWake ==
    /\ pc.ka = "sleep"
    /\ Quiescent
    /\ \E e \in SendOutcomes :
          LET s == Begin("ka")
              t == async_send_command(s, "ka", HANDSHAKE, e)
          IN  Apply(IF ~s.keep_alive THEN s
                    ELSE IF t.ev.failed # "-" THEN [t EXCEPT !.pc.ka = "failed"]
                    ELSE t)

KeepAliveCancelled ==
    /\ cancel.ka
    /\ pc.ka \in {"init", "sleep"}
    /\ Apply([Begin("ka") EXCEPT !.pc.ka = "done", !.cancel.ka = FALSE])

-----------------------------------------------------------------------------
(* The Receive task.                                                      *)

\* The task's first step; the Keep-Alive task was created first.
ReceiveInit ==
    /\ pc.rx = "init"
    /\ ~cancel.rx
    /\ pc.ka # "init"
    /\ Apply([Begin("rx") EXCEPT !.pc.rx = "read"])

socket_receive_except_AnyOSError(s, e) ==
    IF e = IncompleteReadError THEN reconnect_hub(s)
    ELSE IF e \in OSErrors THEN reconnect_hub(s)
    ELSE Unhandled(s, e)

\* socket_receive's handlers for an exception of get_response.
socket_receive_except(s, e) ==
    IF e = IncompleteReadError THEN reconnect_hub(s)
    ELSE IF e \in OSErrors
         THEN IF e \in RECONNECT_ERRORS THEN reconnect_hub(s) ELSE Unhandled(s, e)
    ELSE Unhandled(s, e)

\* One turn of socket_receive's loop.
Receive ==
    /\ pc.rx = "read"
    /\ Quiescent
    /\ \E o \in ReadOutcomes(FALSE) :
          LET r == get_response(Begin("rx"), o)
              d == Dispatch(r, o)
          IN  Apply(IF o.err # "-" THEN socket_receive_except(r, o.err)
                    ELSE IF o.op = HANDSHAKE THEN r
                    ELSE IF o.op = "E" THEN r
                    ELSE IF d.ev.failed # "-" THEN Unhandled(d, HandlerError)
                    ELSE d)

\* reconnect_hub: async_discover_hubs(rediscover=True) returns k >= 1 hubs.
Rediscovered ==
    /\ pc.rx = "rediscover"
    /\ Quiescent
    /\ \E k \in 1..MaxHubs :
          Apply([Begin("rx") EXCEPT !.discovered_hubs = k - 1, !.pc.rx = "r_open"])

\* reconnect_hub: the sleep before the next attempt ends.
RetrySleepDone ==
    /\ pc.rx \in {"sleep1", "sleep10"}
    /\ Quiescent
    /\ LET s == Begin("rx")
       IN  Apply(IF pc.rx = "sleep1"
                 THEN [s EXCEPT !.discovered_hubs = @ - 1, !.pc.rx = "r_open"]
                 ELSE [s EXCEPT !.pc.rx = "r_open"])

\* CancelledError is delivered at the await the task is suspended in.
\* Inside stop() that await sits in suppress(CancelledError): see StopResume.
ReceiveCancelled ==
    /\ cancel.rx
    /\ pc.rx \notin {"none", "done", "stop_ka"}
    /\ Apply([Begin("rx") EXCEPT !.pc.rx = "done", !.cancel.rx = FALSE])

-----------------------------------------------------------------------------
(* The state mirror: response_handler's effect on the maps, the facade     *)
(* operations that write to them, and the callback list.                   *)
(*                                                                         *)
(* A frame is the sequence of its space-separated fields; a record of the  *)
(* mirror (a dict) is a function from key to field; a map of records (an   *)
(* OrderedDict) is the sequence of its <<key, record>> items in insertion  *)
(* order.  A field that the code splits again or slices (the profile of a  *)
(* week profile frame, a profile entry) is the sequence of its parts.      *)

\* api.py
ADD_OVERRIDE == "A03"
UPDATE_ZONE == "U00"
RESPONSE_ADD_ZONE == "B00"
RESPONSE_ADD_COMPONENT == "B01"
RESPONSE_ADD_WEEK_PROFILE == "B02"
RESPONSE_ADD_OVERRIDE == "B03"
RESPONSE_UPDATE_ZONE == "V00"
RESPONSE_UPDATE_COMPONENT == "V01"
RESPONSE_UPDATE_WEEK_PROFILE == "V02"
RESPONSE_UPDATE_INTERNET_ACCESS == "V06"
RESPONSE_REMOVE_ZONE == "S00"
RESPONSE_REMOVE_COMPONENT == "S01"
RESPONSE_REMOVE_WEEK_PROFILE == "S02"
RESPONSE_REMOVE_OVERRIDE == "S03"
RESPONSE_WEEK_PROFILE_INFO == "H03"
RESPONSE_OVERRIDE_INFO == "H04"
OVERRIDE_MODE_NORMAL == "0"
OVERRIDE_MODE_COMFORT == "1"
OVERRIDE_MODE_ECO == "2"
OVERRIDE_MODE_AWAY == "3"
OVERRIDE_TYPE_NOW == "0"
OVERRIDE_TYPE_CONSTANT == "3"
OVERRIDE_TARGET_GLOBAL == "0"
OVERRIDE_TARGET_ZONE == "1"
OVERRIDE_TARGET_COMPONENT == "2"
WEEK_PROFILE_STATE_ECO == "0"
WEEK_PROFILE_STATE_COMFORT == "1"
WEEK_PROFILE_STATE_AWAY == "2"
WEEK_PROFILE_STATE_OFF == "4"
STRUCT_KEYS_HUB ==
    <<"serial", "name", "default_away_override_length", "override_id",
      "software_version", "hardware_version", "production_date">>
STRUCT_KEYS_ZONE ==
    <<"zone_id", "name", "week_profile_id", "temp_comfort_c", "temp_eco_c",
      "override_allowed", "deprecated_override_id">>
STRUCT_KEYS_COMPONENT ==
    <<"serial", "status", "name", "reverse_onoff", "zone_id", "override_id",
      "tempsensor_for_zone_id">>
STRUCT_KEYS_WEEK_PROFILE == <<"week_profile_id", "name", "profile">>
STRUCT_KEYS_OVERRIDE ==
    <<"override_id", "mode", "type", "end_time", "start_time", "target_type",
      "target_id">>
NAME_OFF == "off"
NAME_AWAY == "away"
NAME_ECO == "eco"
NAME_COMFORT == "comfort"
NAME_NORMAL == "normal"
DICT_OVERRIDE_MODE_TO_NAME ==
    [m \in {OVERRIDE_MODE_NORMAL, OVERRIDE_MODE_COMFORT, OVERRIDE_MODE_ECO,
            OVERRIDE_MODE_AWAY} |->
        IF m = OVERRIDE_MODE_NORMAL THEN NAME_NORMAL
        ELSE IF m = OVERRIDE_MODE_COMFORT THEN NAME_COMFORT
        ELSE IF m = OVERRIDE_MODE_ECO THEN NAME_ECO
        ELSE NAME_AWAY]
DICT_WEEK_PROFILE_STATUS_TO_NAME ==
    [c \in {WEEK_PROFILE_STATE_ECO, WEEK_PROFILE_STATE_COMFORT,
            WEEK_PROFILE_STATE_AWAY, WEEK_PROFILE_STATE_OFF} |->
        IF c = WEEK_PROFILE_STATE_ECO THEN NAME_ECO
        ELSE IF c = WEEK_PROFILE_STATE_COMFORT THEN NAME_COMFORT
        ELSE IF c = WEEK_PROFILE_STATE_AWAY THEN NAME_AWAY
        ELSE NAME_OFF]

\* Exceptions of a lookup.
KeyError == "KeyError"
IndexError == "IndexError"
AttributeError == "AttributeError"
ValueError == "ValueError"

\* The keys of an ordered map.
Keys(m) == {m[i][1] : i \in 1..Len(m)}

\* m[k], for a key of m.
Get(m, k) == m[CHOOSE i \in 1..Len(m) : m[i][1] = k][2]

Put_Appends(m, k, v) == Append(m, <<k, v>>)

\* m[k] = v: a key that is present keeps its place, a new one goes last.
Put(m, k, v) ==
    IF k \in Keys(m)
    THEN [i \in 1..Len(m) |-> IF m[i][1] = k THEN <<k, v>> ELSE m[i]]
    ELSE Append(m, <<k, v>>)

\* m.pop(k, None)
Pop(m, k) == SelectSeq(m, LAMBDA item : item[1] # k)

Min(a, b) == IF a < b THEN a ELSE b

\* dict(zip(keys, vals)): as many items as the shorter of the two has.
zip(keys, vals) ==
    LET n == Min(Len(keys), Len(vals))
    IN  [k \in {keys[i] : i \in 1..n} |->
            vals[CHOOSE i \in 1..n : keys[i] = k]]

\* The exception is left in ev.failed.
raise(s, e) == [s EXCEPT !.ev.failed = e]

sending_all_info_KeepsOverrides(s) ==
    [s EXCEPT !.hub_info = <<>>, !.zones = <<>>, !.components = <<>>,
              !.week_profiles = <<>>]

sending_all_info_ClearsTemperatures(s) ==
    [s EXCEPT !.hub_info = <<>>, !.zones = <<>>, !.components = <<>>,
              !.week_profiles = <<>>, !.overrides = <<>>, !.temperatures = <<>>]

\* "All info incoming, clear existing info": the maps' part.
sending_all_info(s) ==
    [s EXCEPT !.hub_info = <<>>, !.zones = <<>>, !.components = <<>>,
              !.week_profiles = <<>>, !.overrides = <<>>]

added_zone_KeyedByName(s, fields) ==
    LET dicti == zip(STRUCT_KEYS_ZONE, fields)
    IN  IF "name" \notin DOMAIN dicti THEN raise(s, KeyError)
        ELSE [s EXCEPT !.zones = Put(@, dicti["name"], dicti)]

\* A zone info, add or update frame.
added_zone(s, fields) ==
    LET dicti == zip(STRUCT_KEYS_ZONE, fields)
    IN  IF "zone_id" \notin DOMAIN dicti THEN raise(s, KeyError)
        ELSE LET t == [s EXCEPT !.zones = Put(@, dicti["zone_id"], dicti)]
             IN  IF "name" \in DOMAIN dicti THEN t ELSE raise(t, KeyError)

\* A component info, add or update frame: nobo.MODELS is read before the
\* record is stored, and the class has no such attribute.
added_component(s, fields) ==
    LET dicti == zip(STRUCT_KEYS_COMPONENT, fields)
    IN  IF /\ {"zone_id", "serial"} \subseteq DOMAIN dicti
           /\ dicti["zone_id"] = "-1" => "tempsensor_for_zone_id" \in DOMAIN dicti
        THEN raise(s, AttributeError)
        ELSE raise(s, KeyError)

\* A week profile info, add or update frame.
added_week_profile(s, response) ==
    LET zipped == zip(STRUCT_KEYS_WEEK_PROFILE, Tail(response))
        dicti == [k \in DOMAIN zipped \cup {"profile"} |->
                     IF k = "profile" THEN response[Len(response)]
                     ELSE zipped[k]]
    IN  IF "week_profile_id" \notin DOMAIN dicti THEN raise(s, KeyError)
        ELSE LET t == [s EXCEPT !.week_profiles =
                                     Put(@, dicti["week_profile_id"], dicti)]
             IN  IF "name" \in DOMAIN dicti THEN t ELSE raise(t, KeyError)

\* An override info or add frame.
added_override(s, fields) ==
    LET dicti == zip(STRUCT_KEYS_OVERRIDE, fields)
    IN  IF "override_id" \notin DOMAIN dicti THEN raise(s, KeyError)
        ELSE [s EXCEPT !.overrides = Put(@, dicti["override_id"], dicti)]

\* A hub info or hub info update frame: the map's part.
updated_hub_info(s, fields) == [s EXCEPT !.hub_info = zip(STRUCT_KEYS_HUB, fields)]

\* A remove that follows the references to the removed entry: the components
\* of a removed zone and the zones of a removed week profile go with it.
removed_Cascades(s, op, fields) ==
    LET id == fields[1]
    IN  IF op = RESPONSE_REMOVE_ZONE
        THEN [s EXCEPT !.zones = Pop(@, id),
                       !.components =
                           SelectSeq(@, LAMBDA item : item[2]["zone_id"] # id)]
        ELSE IF op = RESPONSE_REMOVE_COMPONENT
        THEN [s EXCEPT !.components = Pop(@, id)]
        ELSE IF op = RESPONSE_REMOVE_WEEK_PROFILE
        THEN [s EXCEPT !.week_profiles = Pop(@, id),
                       !.zones =
                           SelectSeq(@, LAMBDA item : item[2]["week_profile_id"] # id)]
        ELSE [s EXCEPT !.overrides = Pop(@, id)]

removed_RaisesOnMissing(s, op, fields) ==
    LET map == IF op = RESPONSE_REMOVE_ZONE THEN s.zones
               ELSE IF op = RESPONSE_REMOVE_COMPONENT THEN s.components
               ELSE IF op = RESPONSE_REMOVE_WEEK_PROFILE THEN s.week_profiles
               ELSE s.overrides
        popped == Pop(map, fields[1])
    IN  IF fields[1] \notin Keys(map) THEN raise(s, KeyError)
        ELSE IF op = RESPONSE_REMOVE_ZONE THEN [s EXCEPT !.zones = popped]
        ELSE IF op = RESPONSE_REMOVE_COMPONENT THEN [s EXCEPT !.components = popped]
        ELSE IF op = RESPONSE_REMOVE_WEEK_PROFILE THEN [s EXCEPT !.week_profiles = popped]
        ELSE [s EXCEPT !.overrides = popped]

\* A zone, component, week profile or override remove frame.
removed(s, op, fields) ==
    IF op = RESPONSE_REMOVE_ZONE
    THEN LET dicti == zip(STRUCT_KEYS_ZONE, fields)
         IN  IF "zone_id" \notin DOMAIN dicti THEN raise(s, KeyError)
             ELSE LET t == [s EXCEPT !.zones = Pop(@, dicti["zone_id"])]
                  IN  IF "name" \in DOMAIN dicti THEN t ELSE raise(t, KeyError)
    ELSE IF op = RESPONSE_REMOVE_COMPONENT
    THEN LET dicti == zip(STRUCT_KEYS_COMPONENT, fields)
         IN  IF "serial" \notin DOMAIN dicti THEN raise(s, KeyError)
             ELSE LET t == [s EXCEPT !.components = Pop(@, dicti["serial"])]
                  IN  IF "name" \in DOMAIN dicti THEN t ELSE raise(t, KeyError)
    ELSE IF op = RESPONSE_REMOVE_WEEK_PROFILE
    THEN LET dicti == zip(STRUCT_KEYS_WEEK_PROFILE, fields)
         IN  IF "week_profile_id" \notin DOMAIN dicti THEN raise(s, KeyError)
             ELSE LET t == [s EXCEPT !.week_profiles =
                                          Pop(@, dicti["week_profile_id"])]
                  IN  IF "name" \in DOMAIN dicti THEN t ELSE raise(t, KeyError)
    ELSE LET dicti == zip(STRUCT_KEYS_OVERRIDE, fields)
         IN  IF "override_id" \notin DOMAIN dicti THEN raise(s, KeyError)
             ELSE [s EXCEPT !.overrides = Pop(@, dicti["override_id"])]

undefined_behavior_Raises(s, response) == raise(s, "UserWarning")

\* The last branch of response_handler: a warning is logged and issued,
\* which the default warning filter prints.
undefined_behavior(s, response) == s

\* response_handler's writes to the maps.  The sync flag is set by
\* response_handler above.
response_handler_maps(s, response) ==
    LET op == response[1]
        fields == Tail(response)
    IN  IF op = RESPONSE_SENDING_ALL_INFO THEN sending_all_info(s)
        ELSE IF op \in {RESPONSE_ZONE_INFO, RESPONSE_ADD_ZONE, RESPONSE_UPDATE_ZONE}
        THEN added_zone(s, fields)
        ELSE IF op \in {RESPONSE_COMPONENT_INFO, RESPONSE_ADD_COMPONENT,
                        RESPONSE_UPDATE_COMPONENT}
        THEN added_component(s, fields)
        ELSE IF op \in {RESPONSE_WEEK_PROFILE_INFO, RESPONSE_ADD_WEEK_PROFILE,
                        RESPONSE_UPDATE_WEEK_PROFILE}
        THEN added_week_profile(s, response)
        ELSE IF op \in {RESPONSE_OVERRIDE_INFO, RESPONSE_ADD_OVERRIDE}
        THEN added_override(s, fields)
        ELSE IF op \in {RESPONSE_HUB_INFO, RESPONSE_UPDATE_HUB_INFO}
        THEN updated_hub_info(s, fields)
        ELSE IF op \in {RESPONSE_REMOVE_ZONE, RESPONSE_REMOVE_COMPONENT,
                        RESPONSE_REMOVE_WEEK_PROFILE, RESPONSE_REMOVE_OVERRIDE}
        THEN removed(s, op, fields)
        ELSE IF op = RESPONSE_COMPONENT_TEMP
        THEN IF Len(response) < 3 THEN raise(s, IndexError)
             ELSE [s EXCEPT !.temperatures = Put(@, response[2], response[3])]
        ELSE IF op = RESPONSE_UPDATE_INTERNET_ACCESS
        THEN IF Len(response) < 18 THEN raise(s, IndexError) ELSE s
        ELSE undefined_behavior(s, response)

\* response_handler on a frame: the maps, then the sync flag.  Whatever it
\* raises reaches its caller as HandlerError.
handle(s, response) ==
    LET m == response_handler_maps(s, response)
    IN  Dispatch([m EXCEPT !.ev.failed = "-"],
                 [op |-> response[1], short |-> m.ev.failed # "-"])

\* register_callback
register_callback(s, callback) == [s EXCEPT !.callbacks = Append(@, callback)]

\* deregister_callback: list.remove takes out the first occurrence and
\* raises ValueError when there is none.
deregister_callback(s, callback) ==
    LET cbs == s.callbacks
        at == {i \in 1..Len(cbs) : cbs[i] = callback}
        first == CHOOSE i \in at : \A j \in at : i <= j
    IN  IF at = {} THEN raise(s, ValueError)
        ELSE [s EXCEPT !.callbacks =
                 [i \in 1..(Len(cbs) - 1) |-> IF i < first THEN cbs[i] ELSE cbs[i + 1]]]

\* The loop of async_create_override over self.overrides from item i on.
RECURSIVE save_override(_, _, _, _, _)
save_override(s, i, mode, type, target_id) ==
    IF i > Len(s.overrides) THEN s
    ELSE LET o == s.overrides[i][2]
         IN  IF "target_id" \notin DOMAIN o THEN raise(s, KeyError)
             ELSE IF o["target_id"] = target_id
             THEN LET saved == [k \in DOMAIN o \cup {"mode", "type"} |->
                                   IF k = "mode" THEN mode
                                   ELSE IF k = "type" THEN type
                                   ELSE o[k]]
                  IN  save_override([s EXCEPT !.overrides[i] = <<@[1], saved>>],
                                    i + 1, mode, type, target_id)
             ELSE save_override(s, i + 1, mode, type, target_id)

\* async_create_override; e is the outcome of the write.
async_create_override(s, mode, type, target_type, target_id, end_time, start_time, e) ==
    LET command == <<ADD_OVERRIDE, "1", mode, type, end_time, start_time,
                     target_type, target_id>>
        t == async_send_command(s, "facade", command[1], e)
    IN  IF t.ev.failed # "-" THEN t
        ELSE save_override(t, 1, mode, type, target_id)

\* "if x:" on an argument.
Truthy(x) == x \notin {None, ""}

async_update_zone_SavesName(s, zone_id, name, week_profile_id, temp_comfort_c, temp_eco_c, override_allowed, e) ==
    IF zone_id \notin Keys(s.zones) THEN raise(s, KeyError)
    ELSE LET zone == Get(s.zones, zone_id)
             saved == [k \in DOMAIN zone |->
                          IF k = "name" /\ Truthy(name) THEN name
                          ELSE IF k = "temp_comfort_c" /\ Truthy(temp_comfort_c)
                               THEN temp_comfort_c
                          ELSE IF k = "temp_eco_c" /\ Truthy(temp_eco_c) THEN temp_eco_c
                          ELSE zone[k]]
         IN  async_send_command([s EXCEPT !.zones = Put(@, zone_id, saved)],
                                "facade", UPDATE_ZONE, e)

async_update_zone_SendsNoName(s, zone_id, name, week_profile_id, temp_comfort_c, temp_eco_c, override_allowed, e) ==
    IF zone_id \notin Keys(s.zones) THEN raise(s, KeyError)
    ELSE LET zone == Get(s.zones, zone_id)
             n == Cardinality(DOMAIN zone)
             args == <<None, week_profile_id, temp_comfort_c, temp_eco_c,
                       override_allowed>>
             command == <<UPDATE_ZONE>> \o
                        [i \in 1..n |-> IF i \in 2..6 /\ Truthy(args[i - 1])
                                        THEN args[i - 1]
                                        ELSE zone[STRUCT_KEYS_ZONE[i]]]
             saved == [k \in DOMAIN zone |->
                          IF k = "temp_comfort_c" /\ Truthy(temp_comfort_c)
                          THEN temp_comfort_c
                          ELSE IF k = "temp_eco_c" /\ Truthy(temp_eco_c) THEN temp_eco_c
                          ELSE zone[k]]
             sent == async_send_command([s EXCEPT !.zones = Put(@, zone_id, saved)],
                                        "facade", UPDATE_ZONE, e)
         IN  IF sent.ev.sent = UPDATE_ZONE THEN [sent EXCEPT !.ev.command = command]
             ELSE sent

\* async_update_zone; e is the outcome of the write.  command is
\* [api.UPDATE_ZONE] + list(self.zones[zone_id].values()), and command[j]
\* (from 0) exists when the zone's record has at least j fields.  The frame
\* written is left in ev.command.
async_update_zone(s, zone_id, name, week_profile_id, temp_comfort_c, temp_eco_c, override_allowed, e) ==
    IF zone_id \notin Keys(s.zones) THEN raise(s, KeyError)
    ELSE LET zone == Get(s.zones, zone_id)
             n == Cardinality(DOMAIN zone)
             args == <<name, week_profile_id, temp_comfort_c, temp_eco_c,
                       override_allowed>>
             \* the arguments whose "command[j] = ..." raises IndexError
             bad == {a \in 1..5 : Truthy(args[a]) /\ n < a + 1}
             done(a) == Truthy(args[a]) /\ \A b \in bad : a < b
             command == <<UPDATE_ZONE>> \o
                        [i \in 1..n |-> IF i \in 2..6 /\ Truthy(args[i - 1])
                                        THEN args[i - 1]
                                        ELSE zone[STRUCT_KEYS_ZONE[i]]]
             saved == [k \in DOMAIN zone |->
                          IF k = "temp_comfort_c" /\ done(3) THEN temp_comfort_c
                          ELSE IF k = "temp_eco_c" /\ done(4) THEN temp_eco_c
                          ELSE zone[k]]
             t == [s EXCEPT !.zones = Put(@, zone_id, saved)]
             sent == async_send_command(t, "facade", UPDATE_ZONE, e)
         IN  IF bad # {} THEN raise(t, IndexError)
             ELSE IF sent.ev.sent = UPDATE_ZONE THEN [sent EXCEPT !.ev.command = command]
             ELSE sent

\* int() of a string of decimal digits, given as the sequence of its
\* characters.
DigitValue(c) ==
    CASE c = "0" -> 0 [] c = "1" -> 1 [] c = "2" -> 2 [] c = "3" -> 3
      [] c = "4" -> 4 [] c = "5" -> 5 [] c = "6" -> 6 [] c = "7" -> 7
      [] c = "8" -> 8 [] c = "9" -> 9

RECURSIVE int(_)
int(digits) ==
    IF Len(digits) = 0 THEN 0
    ELSE 10 * int(SubSeq(digits, 1, Len(digits) - 1)) + DigitValue(digits[Len(digits)])

RECURSIVE scan_profile_AnyDay(_, _, _, _, _, _)
scan_profile_AnyDay(profile, i, weekday, status, dt_weekday, target) ==
    IF i > Len(profile) THEN status
    ELSE LET timestamp == profile[i]
             hhmm == SubSeq(timestamp, 1, Min(4, Len(timestamp)))
         IN  IF int(hhmm) <= target
             THEN scan_profile_AnyDay(profile, i + 1, weekday, timestamp[Len(timestamp)],
                                      dt_weekday, target)
             ELSE status

\* The loop of get_week_profile_status over profile[1:], from the entry at
\* index i (from 1); dt_weekday is dt.weekday().  The result is the status
\* character.
RECURSIVE scan_profile(_, _, _, _, _, _)
scan_profile(profile, i, weekday, status, dt_weekday, target) ==
    IF i > Len(profile) THEN status
    ELSE LET timestamp == profile[i]
             hhmm == SubSeq(timestamp, 1, Min(4, Len(timestamp)))
             day == IF hhmm = <<"0", "0", "0", "0">> THEN weekday + 1 ELSE weekday
         IN  IF day = dt_weekday
             THEN IF int(hhmm) <= target
                  THEN scan_profile(profile, i + 1, day, timestamp[Len(timestamp)],
                                    dt_weekday, target)
                  ELSE status
             ELSE scan_profile(profile, i + 1, day, status, dt_weekday, target)

RECURSIVE scan_profile_entry_LatestDue(_, _, _, _, _, _)
scan_profile_entry_LatestDue(profile, i, weekday, entry, dt_weekday, target) ==
    IF i > Len(profile) THEN entry
    ELSE LET timestamp == profile[i]
             hhmm == SubSeq(timestamp, 1, Min(4, Len(timestamp)))
             day == IF hhmm = <<"0", "0", "0", "0">> THEN weekday + 1 ELSE weekday
             later == entry = 1 \/ int(SubSeq(profile[entry], 1, 4)) <= int(hhmm)
         IN  IF day = dt_weekday /\ int(hhmm) <= target /\ later
             THEN scan_profile_entry_LatestDue(profile, i + 1, day, i, dt_weekday, target)
             ELSE scan_profile_entry_LatestDue(profile, i + 1, day, entry, dt_weekday, target)

\* The same loop, keeping the index (from 1) of the entry that status was
\* last taken from; entry 1 is profile[0], the initial status.
RECURSIVE scan_profile_entry(_, _, _, _, _, _)
scan_profile_entry(profile, i, weekday, entry, dt_weekday, target) ==
    IF i > Len(profile) THEN entry
    ELSE LET timestamp == profile[i]
             hhmm == SubSeq(timestamp, 1, Min(4, Len(timestamp)))
             day == IF hhmm = <<"0", "0", "0", "0">> THEN weekday + 1 ELSE weekday
         IN  IF day = dt_weekday
             THEN IF int(hhmm) <= target
                  THEN scan_profile_entry(profile, i + 1, day, i, dt_weekday, target)
                  ELSE entry
             ELSE scan_profile_entry(profile, i + 1, day, entry, dt_weekday, target)

\* get_week_profile_status at weekday dt_weekday, hour:minute.  The value is
\* the name returned, or the exception raised.
get_week_profile_status(s, week_profile_id, dt_weekday, hour, minute) ==
    IF week_profile_id \notin Keys(s.week_profiles) THEN KeyError
    ELSE LET profile == Get(s.week_profiles, week_profile_id)["profile"]
             target == (hour * 100) + minute
             status == scan_profile(profile, 2, 0, profile[1][Len(profile[1])],
                                    dt_weekday, target)
         IN  IF status \in DOMAIN DICT_WEEK_PROFILE_STATUS_TO_NAME
             THEN DICT_WEEK_PROFILE_STATUS_TO_NAME[status]
             ELSE KeyError

RECURSIVE scan_overrides_NoBreak(_, _, _, _)
scan_overrides_NoBreak(s, zone_id, i, mode) ==
    IF i > Len(s.overrides) THEN mode
    ELSE LET o == s.overrides[i][2]
         IN  IF o["mode"] = "0" THEN scan_overrides_NoBreak(s, zone_id, i + 1, mode)
             ELSE IF o["target_type"] = OVERRIDE_TARGET_ZONE /\ o["target_id"] = zone_id
             THEN scan_overrides_NoBreak(s, zone_id, i + 1, DICT_OVERRIDE_MODE_TO_NAME[o["mode"]])
             ELSE IF zone_id \notin Keys(s.zones) THEN KeyError
             ELSE IF /\ Get(s.zones, zone_id)["override_allowed"] = "1"
                     /\ o["target_type"] = OVERRIDE_TARGET_GLOBAL
             THEN scan_overrides_NoBreak(s, zone_id, i + 1, DICT_OVERRIDE_MODE_TO_NAME[o["mode"]])
             ELSE scan_overrides_NoBreak(s, zone_id, i + 1, mode)

RECURSIVE scan_overrides_NormalMasks(_, _, _, _)
scan_overrides_NormalMasks(s, zone_id, i, mode) ==
    IF i > Len(s.overrides) THEN mode
    ELSE LET o == s.overrides[i][2]
         IN  IF o["mode"] = "0" /\ o["target_type"] # OVERRIDE_TARGET_ZONE THEN scan_overrides_NormalMasks(s, zone_id, i + 1, mode)
             ELSE IF o["target_type"] = OVERRIDE_TARGET_ZONE /\ o["target_id"] = zone_id
             THEN DICT_OVERRIDE_MODE_TO_NAME[o["mode"]]
             ELSE IF zone_id \notin Keys(s.zones) THEN KeyError
             ELSE IF /\ Get(s.zones, zone_id)["override_allowed"] = "1"
                     /\ o["target_type"] = OVERRIDE_TARGET_GLOBAL
             THEN scan_overrides_NormalMasks(s, zone_id, i + 1, DICT_OVERRIDE_MODE_TO_NAME[o["mode"]])
             ELSE scan_overrides_NormalMasks(s, zone_id, i + 1, mode)

RECURSIVE scan_overrides_GlobalAlways(_, _, _, _)
scan_overrides_GlobalAlways(s, zone_id, i, mode) ==
    IF i > Len(s.overrides) THEN mode
    ELSE LET o == s.overrides[i][2]
         IN  IF o["mode"] = "0" THEN scan_overrides_GlobalAlways(s, zone_id, i + 1, mode)
             ELSE IF o["target_type"] = OVERRIDE_TARGET_ZONE /\ o["target_id"] = zone_id
             THEN DICT_OVERRIDE_MODE_TO_NAME[o["mode"]]
             ELSE IF zone_id \notin Keys(s.zones) THEN KeyError
             ELSE IF /\ TRUE
                     /\ o["target_type"] = OVERRIDE_TARGET_GLOBAL
             THEN scan_overrides_GlobalAlways(s, zone_id, i + 1, DICT_OVERRIDE_MODE_TO_NAME[o["mode"]])
             ELSE scan_overrides_GlobalAlways(s, zone_id, i + 1, mode)

\* The loop of get_zone_override_mode over self.overrides from item i on.
RECURSIVE scan_overrides(_, _, _, _)
scan_overrides(s, zone_id, i, mode) ==
    IF i > Len(s.overrides) THEN mode
    ELSE LET o == s.overrides[i][2]
         IN  IF o["mode"] = "0" THEN scan_overrides(s, zone_id, i + 1, mode)
             ELSE IF o["target_type"] = OVERRIDE_TARGET_ZONE /\ o["target_id"] = zone_id
             THEN IF o["mode"] \in DOMAIN DICT_OVERRIDE_MODE_TO_NAME
                  THEN DICT_OVERRIDE_MODE_TO_NAME[o["mode"]]
                  ELSE KeyError
             ELSE IF zone_id \notin Keys(s.zones) THEN KeyError
             ELSE IF /\ Get(s.zones, zone_id)["override_allowed"] = "1"
                     /\ o["target_type"] = OVERRIDE_TARGET_GLOBAL
             THEN IF o["mode"] \in DOMAIN DICT_OVERRIDE_MODE_TO_NAME
                  THEN scan_overrides(s, zone_id, i + 1,
                                      DICT_OVERRIDE_MODE_TO_NAME[o["mode"]])
                  ELSE KeyError
             ELSE scan_overrides(s, zone_id, i + 1, mode)

\* get_zone_override_mode: the name returned, or the exception raised.  The
\* debug line before the return looks the zone up.
get_zone_override_mode(s, zone_id) ==
    LET mode == scan_overrides(s, zone_id, 1, NAME_NORMAL)
    IN  IF zone_id \notin Keys(s.zones) THEN KeyError ELSE mode

get_current_zone_mode_OverrideOnly(s, zone_id, now_weekday, hour, minute) ==
    get_zone_override_mode(s, zone_id)

\* get_current_zone_mode at weekday now_weekday, hour:minute.
get_current_zone_mode(s, zone_id, now_weekday, hour, minute) ==
    LET current_mode == get_zone_override_mode(s, zone_id)
    IN  IF current_mode = NAME_NORMAL
        THEN get_week_profile_status(s, Get(s.zones, zone_id)["week_profile_id"],
                                     now_weekday, hour, minute)
        ELSE current_mode

\* The reading that is no reading.
NOT_AVAILABLE == "N/A"

\* get_current_component_temperature; the value returned is left in
\* ev.result.  The arguments of the debug call are evaluated whether or not
\* the message is logged: self.components[serial]['name'].
get_current_component_temperature(s, serial) ==
    LET current_temperature ==
            IF serial \in Keys(s.temperatures)
               /\ Get(s.temperatures, serial) # NOT_AVAILABLE
            THEN Get(s.temperatures, serial)
            ELSE None
    IN  IF Truthy(current_temperature)
           /\ (\/ serial \notin Keys(s.components)
               \/ "name" \notin DOMAIN Get(s.components, serial))
        THEN raise(s, KeyError)
        ELSE [s EXCEPT !.ev.result = current_temperature]

\* The loop of get_current_zone_temperature over self.components from item
\* i on; the loop's current_temperature is left in ev.result.
RECURSIVE scan_components(_, _, _)
scan_components(s, zone_id, i) ==
    IF i > Len(s.components) THEN s
    ELSE LET c == s.components[i][1]
             record == s.components[i][2]
             t == get_current_component_temperature(s, c)
         IN  IF "zone_id" \notin DOMAIN record THEN raise(s, KeyError)
             ELSE IF record["zone_id"] # zone_id THEN scan_components(s, zone_id, i + 1)
             ELSE IF t.ev.failed # "-" THEN t
             ELSE IF t.ev.result # None THEN t
             ELSE scan_components(t, zone_id, i + 1)

\* get_current_zone_temperature; its debug call reads
\* self.zones[zone_id]['name'].
get_current_zone_temperature(s, zone_id) ==
    LET t == scan_components([s EXCEPT !.ev.result = None], zone_id, 1)
    IN  IF t.ev.failed # "-" THEN t
        ELSE IF Truthy(t.ev.result)
                /\ (\/ zone_id \notin Keys(t.zones)
                    \/ "name" \notin DOMAIN Get(t.zones, zone_id))
             THEN raise(t, KeyError)
        ELSE t

-----------------------------------------------------------------------------

\* The mirror and the callback list of a client just constructed.  An
\* ordered mapping is the sequence of its <<key, value>> items.
EmptyMirror ==
    /\ callbacks = <<>>
    /\ hub_info = <<>>
    /\ zones = <<>>
    /\ components = <<>>
    /\ week_profiles = <<>>
    /\ overrides = <<>>
    /\ temperatures = <<>>

Init ==
    /\ EmptyMirror
    /\ discover \in BOOLEAN
    /\ pinned_valid \in BOOLEAN
    /\ discover => pinned_valid
    /\ writer = FALSE
    /\ conn = "none"
    /\ hub_bound = FALSE
    /\ keep_alive = FALSE
    /\ received_all_info = FALSE
    /\ pc = [caller |-> "idle", ka |-> "none", rx |-> "none"]
    /\ cancel = [ka |-> FALSE, rx |-> FALSE]
    /\ discovered_hubs = 0
    /\ synced = FALSE
    /\ syncOpen = FALSE
    /\ fatal = NoFatal
    /\ ev = NoEv
    /\ protocol = NoProtocol
    /\ wire = ""
    /\ orphans = NoOrphans

Next ==
    \/ Start
    \/ Discovered
    \/ \E p \in Connectors : ConnOpen(p)
    \/ \E p \in Connectors : ConnHello(p)
    \/ \E p \in Connectors : ConnHandshake(p)
    \/ \E p \in Connectors : ConnSync(p)
    \/ Stop
    \/ \E p \in Connectors : StopResume(p)
    \/ StopClosed
    \/ FacadeSend
    \/ KeepAliveInit
    \/ KeepAliveWake
    \/ KeepAliveCancelled
    \/ ReceiveInit
    \/ Receive
    \/ Rediscovered
    \/ RetrySleepDone
    \/ ReceiveCancelled

Spec == Init /\ [][Next]_vars

-----------------------------------------------------------------------------
(* The mirror in steady state: frames pushed by the hub, and the caller    *)
(* using the facade, from a client just constructed or from one whose      *)
(* start() has returned.                                                   *)

\* Most callbacks registered at a time.
MaxCallbacks == 2

\* The callables the caller registers.
Callables == {"f", "g"}

\* Opcodes whose first character is E.
ErrorOpcodes == {"E", RESPONSE_ERROR}

\* The hub's terminal frame of a sync.
HubInfoFrame ==
    <<RESPONSE_HUB_INFO, "102000000001", "Hub", "60", "-1", "1.0", "1.0", "20200101">>

\* The frames the hub sends in the runs of SpecMirror.
MirrorFrames ==
    {<<HANDSHAKE>>,
     <<"E">>,
     <<RESPONSE_ERROR, ADD_OVERRIDE, "rejected">>,
     <<RESPONSE_SENDING_ALL_INFO>>,
     HubInfoFrame,
     <<RESPONSE_ZONE_INFO, "1", "Kitchen", "9", "21", "17", "1", "-1">>,
     <<RESPONSE_UPDATE_COMPONENT, "200000000001", "0", "Heater", "0", "1", "-1", "-1">>,
     <<RESPONSE_ADD_OVERRIDE, "5", OVERRIDE_MODE_COMFORT, OVERRIDE_TYPE_NOW,
       "-1", "-1", OVERRIDE_TARGET_ZONE, "1">>}

\* The write outcomes drawn in the runs of SpecMirror.
MirrorSendOutcomes == {"-", "ECONNRESET"}

\* The zone ids the caller passes: "1" is the hub's zone, "2" is no zone.
CallerZoneIds == {"1", "2"}

\* The <<name, temp_comfort_c, temp_eco_c>> the caller passes to
\* async_update_zone.
UpdateZoneArgs == {<<None, "22", None>>, <<"Bath", None, "18">>, <<None, None, None>>}

\* The Zone, Component, WeekProfile, Override and HubInfo contents.
MirrorMaps == <<hub_info, zones, components, week_profiles, overrides>>

\* One turn of socket_receive's loop on the frame response.
socket_receive_frame(s, response) ==
    LET r == get_response(s, [err |-> "-", op |-> response[1], short |-> FALSE])
        d == handle(r, response)
    IN  IF response[1] = HANDSHAKE THEN r
        ELSE IF response[1] = "E" THEN r
        ELSE IF d.ev.failed # "-" THEN Unhandled(d, HandlerError)
        ELSE [d EXCEPT !.ev.invoked = d.callbacks]

\* One turn of socket_receive's loop on a frame, or on a connection reset.
MirrorReceive ==
    /\ pc.rx = "read"
    /\ Quiescent
    /\ \/ \E response \in MirrorFrames :
             Apply(socket_receive_frame(Begin("rx"), response))
       \/ LET o == [err |-> "ECONNRESET", op |-> "-", short |-> FALSE]
          IN  Apply(socket_receive_except(get_response(Begin("rx"), o), o.err))

Facade(call) == [Begin("caller") EXCEPT !.ev.call = call]

SendCommand ==
    /\ pc.caller = "idle"
    /\ \E e \in MirrorSendOutcomes :
          Apply(async_send_command(Facade("async_send_command"), "facade",
                                   GET_ALL_INFO, e))

CreateOverride ==
    /\ pc.caller = "idle"
    /\ \E target_id \in {"1", "-1"}, e \in MirrorSendOutcomes :
          Apply(async_create_override(Facade("async_create_override"),
                                      OVERRIDE_MODE_ECO, OVERRIDE_TYPE_CONSTANT,
                                      OVERRIDE_TARGET_ZONE, target_id, "-1", "-1", e))

UpdateZone ==
    /\ pc.caller = "idle"
    /\ \E zone_id \in CallerZoneIds, args \in UpdateZoneArgs, e \in MirrorSendOutcomes :
          Apply(async_update_zone(Facade("async_update_zone"), zone_id, args[1], None,
                                  args[2], args[3], None, e))

RegisterCallback ==
    /\ pc.caller = "idle"
    /\ Len(callbacks) < MaxCallbacks
    /\ \E callback \in Callables :
          Apply(register_callback(Facade("register_callback"), callback))

\* The caller deregisters a callback it has registered.
DeregisterCallback ==
    /\ pc.caller = "idle"
    /\ \E callback \in {callbacks[i] : i \in 1..Len(callbacks)} :
          Apply(deregister_callback(Facade("deregister_callback"), callback))

\* The caller reads the mirror through a getter.
Query ==
    /\ pc.caller = "idle"
    /\ \E zone_id \in CallerZoneIds :
          Apply([Facade("get_zone_override_mode") EXCEPT
                    !.ev.arg = zone_id,
                    !.ev.result = get_zone_override_mode(State, zone_id)])

\* Where every activity is once start() has returned on a hub with pinned
\* ip and serial.
SteadyState ==
    /\ discover = FALSE
    /\ pinned_valid = TRUE
    /\ writer = TRUE
    /\ conn = "open"
    /\ hub_bound = TRUE
    /\ keep_alive = TRUE
    /\ received_all_info = TRUE
    /\ pc = [caller |-> "idle", ka |-> "sleep", rx |-> "read"]
    /\ cancel = [ka |-> FALSE, rx |-> FALSE]
    /\ discovered_hubs = 0
    /\ synced = TRUE
    /\ syncOpen = FALSE
    /\ fatal = NoFatal
    /\ protocol = NoProtocol
    /\ wire = ""
    /\ orphans = NoOrphans

\* A client just constructed, or one that has bootstrapped from a hub
\* without zones.
InitMirror ==
    \/ /\ Init
       /\ ~discover
       /\ pinned_valid
    \/ /\ SteadyState
       /\ ev = NoEv
       /\ callbacks = <<>>
       /\ hub_info = zip(STRUCT_KEYS_HUB, Tail(HubInfoFrame))
       /\ zones = <<>>
       /\ components = <<>>
       /\ week_profiles = <<>>
       /\ overrides = <<>>
       /\ temperatures = <<>>

NextMirror ==
    \/ MirrorReceive
    \/ SendCommand
    \/ CreateOverride
    \/ UpdateZone
    \/ RegisterCallback
    \/ DeregisterCallback
    \/ Query
    \/ KeepAliveCancelled
    \/ \E p \in Connectors : StopResume(p)

SpecMirror == InitMirror /\ [][NextMirror]_vars

-----------------------------------------------------------------------------
(* Override precedence: get_zone_override_mode and get_current_zone_mode   *)
(* on a synced client, for every Override map up to MaxOverrides entries.  *)

\* Most overrides in the mirror.
MaxOverrides == 3

\* A profile entry "HHMMs" as the sequence of its characters.
Entry(h1, h2, m1, m2, state) == <<h1, h2, m1, m2, state>>

\* Monday: eco, comfort from 06:00; Tuesday: off.
DefaultProfile ==
    <<Entry("0", "0", "0", "0", WEEK_PROFILE_STATE_ECO),
      Entry("0", "6", "0", "0", WEEK_PROFILE_STATE_COMFORT),
      Entry("0", "0", "0", "0", WEEK_PROFILE_STATE_OFF)>>

\* The record response_handler stores for a zone frame.
ZoneRecord(zone_id, override_allowed) ==
    zip(STRUCT_KEYS_ZONE, <<zone_id, "Zone", "9", "21", "17", override_allowed, "-1">>)

\* The <<mode, target_type, target_id>> of the overrides the hub holds.
OverrideChoices ==
    {OVERRIDE_MODE_NORMAL, OVERRIDE_MODE_COMFORT, OVERRIDE_MODE_ECO}
    \X {<<OVERRIDE_TARGET_GLOBAL, "-1">>, <<OVERRIDE_TARGET_ZONE, "1">>,
        <<OVERRIDE_TARGET_ZONE, "2">>}

\* The ids the hub gives its overrides, in the order it sent them.
OverrideIds == <<"4", "5", "6", "7", "8">>

\* The record response_handler stores for an override frame.
OverrideRecord(override_id, choice) ==
    zip(STRUCT_KEYS_OVERRIDE,
        <<override_id, choice[1], OVERRIDE_TYPE_CONSTANT, "-1", "-1",
          choice[2][1], choice[2][2]>>)

\* The points in time the caller asks for: <<weekday, hour, minute>>.
QueryTimes == {<<0, 5, 0>>, <<0, 6, 0>>, <<1, 12, 30>>}

\* A synced client: zones 1 and 2, week profile 9, and up to MaxOverrides
\* overrides in any order of arrival.
InitOverride ==
    /\ SteadyState
    /\ ev = NoEv
    /\ callbacks = <<>>
    /\ hub_info = zip(STRUCT_KEYS_HUB, Tail(HubInfoFrame))
    /\ \E allowed \in {"0", "1"} :
          zones = <<<<"1", ZoneRecord("1", allowed)>>, <<"2", ZoneRecord("2", "1")>>>>
    /\ components = <<>>
    /\ week_profiles =
          <<<<"9", [week_profile_id |-> "9", name |-> "Default",
                   profile |-> DefaultProfile]>>>>
    /\ \E n \in 0..MaxOverrides :
          \E choices \in [1..n -> OverrideChoices] :
             overrides = [i \in 1..n |->
                             <<OverrideIds[i], OverrideRecord(OverrideIds[i], choices[i])>>]
    /\ temperatures = <<>>

GetZoneOverrideMode ==
    /\ pc.caller = "idle"
    /\ \E zone_id \in Keys(zones) :
          Apply([Facade("get_zone_override_mode") EXCEPT
                    !.ev.arg = zone_id,
                    !.ev.result = get_zone_override_mode(State, zone_id)])

GetCurrentZoneMode ==
    /\ pc.caller = "idle"
    /\ \E zone_id \in Keys(zones), now \in QueryTimes :
          Apply([Facade("get_current_zone_mode") EXCEPT
                    !.ev.arg = zone_id,
                    !.ev.when = now,
                    !.ev.result = get_current_zone_mode(State, zone_id,
                                                        now[1], now[2], now[3])])

NextOverride ==
    \/ GetZoneOverrideMode
    \/ GetCurrentZoneMode

SpecOverride == InitOverride /\ [][NextOverride]_vars

-----------------------------------------------------------------------------
(* The schedule evaluator: get_week_profile_status on a synced client, for *)
(* every week profile of up to MaxEntries entries.                         *)

\* Most entries in a week profile.
MaxEntries == 4

\* The "HHMM" and the state of the entries the hub sends.
TimeChoices == {<<"0", "0", "0", "0">>, <<"0", "6", "0", "0">>, <<"1", "2", "0", "0">>}
StateChoices == {WEEK_PROFILE_STATE_ECO, WEEK_PROFILE_STATE_COMFORT}
EntryChoices == {Entry(t[1], t[2], t[3], t[4], c) : t \in TimeChoices, c \in StateChoices}

\* The points in time the caller asks for: <<weekday, hour, minute>>.
ScheduleTimes == {0, 1, 2} \X {<<0, 0>>, <<6, 0>>, <<11, 59>>, <<23, 59>>}

\* A synced client with week profile 9: entry 0 at 0000, the others in any
\* order.
InitSchedule ==
    /\ SteadyState
    /\ ev = NoEv
    /\ callbacks = <<>>
    /\ hub_info = zip(STRUCT_KEYS_HUB, Tail(HubInfoFrame))
    /\ zones = <<<<"1", ZoneRecord("1", "1")>>>>
    /\ components = <<>>
    /\ \E n \in 1..MaxEntries :
          \E profile \in [1..n -> EntryChoices] :
             /\ SubSeq(profile[1], 1, 4) = <<"0", "0", "0", "0">>
             /\ week_profiles = <<<<"9", [week_profile_id |-> "9", name |-> "Default",
                                         profile |-> profile]>>>>
    /\ overrides = <<>>
    /\ temperatures = <<>>

GetWeekProfileStatus ==
    /\ pc.caller = "idle"
    /\ \E week_profile_id \in Keys(week_profiles), dt \in ScheduleTimes :
          Apply([Facade("get_week_profile_status") EXCEPT
                    !.ev.arg = week_profile_id,
                    !.ev.when = <<dt[1], dt[2][1], dt[2][2]>>,
                    !.ev.result = get_week_profile_status(State, week_profile_id,
                                                          dt[1], dt[2][1], dt[2][2])])

NextSchedule == GetWeekProfileStatus

SpecSchedule == InitSchedule /\ [][NextSchedule]_vars

-----------------------------------------------------------------------------
(* The dispatcher: the Receive task of a synced client hands every frame   *)
(* the hub pushes to response_handler, and the caller reads the mirror.    *)

\* The week profile of the hub: Monday eco, comfort from 06:00 to 22:00;
\* eco on the six other days.
KitchenProfile ==
    <<Entry("0", "0", "0", "0", WEEK_PROFILE_STATE_ECO),
      Entry("0", "6", "0", "0", WEEK_PROFILE_STATE_COMFORT),
      Entry("2", "2", "0", "0", WEEK_PROFILE_STATE_ECO),
      Entry("0", "0", "0", "0", WEEK_PROFILE_STATE_ECO),
      Entry("0", "0", "0", "0", WEEK_PROFILE_STATE_ECO),
      Entry("0", "0", "0", "0", WEEK_PROFILE_STATE_ECO),
      Entry("0", "0", "0", "0", WEEK_PROFILE_STATE_ECO),
      Entry("0", "0", "0", "0", WEEK_PROFILE_STATE_ECO),
      Entry("0", "0", "0", "0", WEEK_PROFILE_STATE_ECO)>>

KitchenFrame == <<RESPONSE_ZONE_INFO, "1", "Kitchen", "2", "22", "18", "1", "-1">>
ProfileFrame == <<RESPONSE_WEEK_PROFILE_INFO, "2", "Default", KitchenProfile>>

\* Zone frames: zone 1 as the sync sends it and as updated later, zone 2
\* added.
ZoneFrames ==
    {KitchenFrame,
     <<RESPONSE_UPDATE_ZONE, "1", "Cuisine", "2", "22", "18", "0", "-1">>,
     <<RESPONSE_ADD_ZONE, "2", "Bath", "2", "24", "18", "1", "-1">>}

\* Component frames of a temperature sensor of zone 1 that is in no zone.
ComponentOps ==
    {RESPONSE_COMPONENT_INFO, RESPONSE_ADD_COMPONENT, RESPONSE_UPDATE_COMPONENT}
ComponentFrames ==
    {<<op, "234000000001", "0", "Sensor", "0", "-1", "-1", "1">> : op \in ComponentOps}

HubInfoFrames ==
    {HubInfoFrame,
     <<RESPONSE_UPDATE_HUB_INFO, "102000000001", "Cabin", "60", "-1", "1.1", "1.0",
       "20200101">>}

RemoveOps ==
    {RESPONSE_REMOVE_ZONE, RESPONSE_REMOVE_COMPONENT, RESPONSE_REMOVE_WEEK_PROFILE,
     RESPONSE_REMOVE_OVERRIDE}
RemoveFrames ==
    {<<RESPONSE_REMOVE_ZONE, "1", "Kitchen", "2", "22", "18", "1", "-1">>,
     <<RESPONSE_REMOVE_COMPONENT, "234000000001", "0", "Sensor", "0", "-1", "-1", "1">>,
     <<RESPONSE_REMOVE_WEEK_PROFILE, "2", "Default", KitchenProfile>>,
     <<RESPONSE_REMOVE_OVERRIDE, "5", OVERRIDE_MODE_ECO, OVERRIDE_TYPE_CONSTANT,
       "-1", "-1", OVERRIDE_TARGET_ZONE, "2">>}

\* The frames the hub sends in the runs of SpecDispatch.
DispatchFrames ==
    {<<RESPONSE_SENDING_ALL_INFO>>, ProfileFrame,
     <<RESPONSE_OVERRIDE_INFO, "5", OVERRIDE_MODE_ECO, OVERRIDE_TYPE_CONSTANT,
       "-1", "-1", OVERRIDE_TARGET_ZONE, "2">>}
    \cup ZoneFrames \cup ComponentFrames \cup HubInfoFrames \cup RemoveFrames

\* The number of records in the mirror.
Records(s) ==
    Len(s.zones) + Len(s.components) + Len(s.week_profiles) + Len(s.overrides)
    + (IF s.hub_info = <<>> THEN 0 ELSE 1)

\* One turn of socket_receive's loop on a frame of DispatchFrames.
ReceiveFrame ==
    /\ pc.rx = "read"
    /\ Quiescent
    /\ \E response \in DispatchFrames :
          Apply([socket_receive_frame(Begin("rx"), response) EXCEPT
                    !.ev.frame = response,
                    !.ev.repeat = (ev.frame = response),
                    !.ev.before = Records(State)])

InitDispatch ==
    /\ InitMirror
    /\ SteadyState

NextDispatch ==
    \/ ReceiveFrame
    \/ GetCurrentZoneMode
    \/ KeepAliveCancelled
    \/ \E p \in Connectors : StopResume(p)

SpecDispatch == InitDispatch /\ [][NextDispatch]_vars

-----------------------------------------------------------------------------
(* update zone: the caller of a synced client whose mirror holds zone 1    *)
(* calls async_update_zone with any subset of the optional arguments.      *)

\* The values the caller passes for name, week_profile_id, temp_comfort_c,
\* temp_eco_c and override_allowed when it passes one.
CallerValues == <<"Bath", "3", "23", "15", "0">>

\* A synced client with zone 1 and week profile 9.
InitUpdateZone ==
    /\ SteadyState
    /\ ev = NoEv
    /\ callbacks = <<>>
    /\ hub_info = zip(STRUCT_KEYS_HUB, Tail(HubInfoFrame))
    /\ zones = <<<<"1", ZoneRecord("1", "1")>>>>
    /\ components = <<>>
    /\ week_profiles =
          <<<<"9", [week_profile_id |-> "9", name |-> "Default",
                   profile |-> DefaultProfile]>>>>
    /\ overrides = <<>>
    /\ temperatures = <<>>

\* async_update_zone with the arguments of the set given, the others left
\* at None.
UpdateZoneWith ==
    /\ pc.caller = "idle"
    /\ \E zone_id \in CallerZoneIds, given \in SUBSET (1..5), e \in MirrorSendOutcomes :
          LET arg(a) == IF a \in given THEN CallerValues[a] ELSE None
              s == [Facade("async_update_zone") EXCEPT
                       !.ev.arg = <<zone_id, arg(1), arg(2), arg(3), arg(4), arg(5)>>]
          IN  Apply(async_update_zone(s, zone_id, arg(1), arg(2), arg(3), arg(4),
                                      arg(5), e))

NextUpdateZone == UpdateZoneWith

SpecUpdateZone == InitUpdateZone /\ [][NextUpdateZone]_vars

-----------------------------------------------------------------------------
(* Discovery: async_discover_hubs listens on UDP port 10000 for the        *)
(* broadcasts of the hubs, and DiscoveryProtocol (src/pynobo/discovery.py) *)
(* collects the (ip, serial) pairs that pass the caller's filters.  A      *)
(* string is a TLA+ string: Len, \o and SubSeq act on its characters.      *)

\* The magic identifier of a hub's broadcast.
NOBOHUB == "__NOBOHUB__"

UnicodeDecodeError == "UnicodeDecodeError"

\* str.startswith
startswith(msg, prefix) ==
    Len(msg) >= Len(prefix) /\ SubSeq(msg, 1, Len(prefix)) = prefix

\* DiscoveryProtocol(serial, ip)
DiscoveryProtocol(serial, ip) == [serial |-> serial, ip |-> ip, hubs |-> {}]

datagram_received_NoIpFilter(s, data, addr) ==
    IF ~data.utf8 THEN raise(s, UnicodeDecodeError)
    ELSE LET msg == data.text
             self == s.protocol
             received == SubSeq(msg, 12, Len(msg))
             discover_serial ==
                 IF Len(self.serial) = 12
                 THEN IF received # SubSeq(self.serial, 1, 9) THEN None
                      ELSE self.serial
                 ELSE received \o self.serial
             discover_ip == addr[1]
         IN  IF startswith(msg, NOBOHUB) /\ Truthy(discover_ip) /\ Truthy(discover_serial)
             THEN [s EXCEPT !.protocol.hubs = @ \cup {<<discover_ip, discover_serial>>}]
             ELSE s

\* datagram_received; data is the datagram (whether it decodes as UTF-8,
\* and to what text), addr its source (ip, port).  An exception leaves the
\* callback for the event loop, which logs it.
datagram_received(s, data, addr) ==
    IF ~data.utf8 THEN raise(s, UnicodeDecodeError)
    ELSE LET msg == data.text
             self == s.protocol
             received == SubSeq(msg, 12, Len(msg))
             discover_serial ==
                 IF Len(self.serial) = 12
                 THEN IF received # SubSeq(self.serial, 1, 9) THEN None
                      ELSE self.serial
                 ELSE received \o self.serial
             discover_ip ==
                 IF Truthy(self.ip) /\ addr[1] # self.ip THEN None ELSE addr[1]
         IN  IF startswith(msg, NOBOHUB) /\ Truthy(discover_ip) /\ Truthy(discover_serial)
             THEN [s EXCEPT !.protocol.hubs = @ \cup {<<discover_ip, discover_serial>>}]
             ELSE s

\* The first 9 digits of the serials of the hubs on the network.
BeaconPrefixes == {"102000000", "103000000"}

\* The datagrams that reach port 10000: the hubs' broadcasts, text of
\* another service, and bytes that are not UTF-8.
Datagrams ==
    {[utf8 |-> TRUE, text |-> NOBOHUB \o prefix] : prefix \in BeaconPrefixes}
    \cup {[utf8 |-> TRUE, text |-> "M-SEARCH * HTTP/1.1"],
          [utf8 |-> TRUE, text |-> "NOBOHUB102000000"],
          [utf8 |-> FALSE, text |-> ""]}

\* The addresses the datagrams come from.
SourceIps == {"10.0.0.2", "10.0.0.3"}
SourcePort == 10000

\* The serial and ip arguments of the caller: no serial, the last 3 digits,
\* the 12 digits of a hub on the network and of one that is not; no ip, or
\* the ip of one source.
CallerSerials == {"", "001", "102000000001", "105000000001"}
CallerIps == {None, "10.0.0.2"}

\* async_discover_hubs up to its first sleep; e is the outcome of
\* create_datagram_endpoint.
DiscoverHubs ==
    /\ pc.caller = "idle"
    /\ \E serial \in CallerSerials, ip \in CallerIps, rediscover \in BOOLEAN,
          e \in {"-", "EADDRINUSE"} :
          LET s == [Facade("async_discover_hubs") EXCEPT !.ev.arg = <<serial, ip>>]
          IN  Apply(IF e # "-" THEN raise(s, e)
                    ELSE [s EXCEPT !.protocol = DiscoveryProtocol(serial, ip),
                                   !.pc.caller = IF rediscover THEN "window_until_found"
                                                 ELSE "window"])

\* A datagram arrives while the endpoint is open.
DatagramReceived ==
    /\ pc.caller \in {"window", "window_until_found"}
    /\ \E data \in Datagrams, ip \in SourceIps :
          LET addr == <<ip, SourcePort>>
              s == [State EXCEPT !.ev.by = "loop", !.ev.call = "datagram_received",
                                 !.ev.arg = <<data, addr>>]
          IN  Apply(datagram_received(s, data, addr))

\* A sleep of autodiscover_wait seconds ends: with rediscover, the next one
\* starts while no hub was found; otherwise the endpoint is closed and
\* protocol.hubs returned.
WindowElapsed ==
    /\ pc.caller \in {"window", "window_until_found"}
    /\ LET s == Begin("caller")
       IN  Apply(IF pc.caller = "window_until_found" /\ protocol.hubs = {}
                 THEN s
                 ELSE [s EXCEPT !.pc.caller = "idle",
                                !.ev.ret = "async_discover_hubs",
                                !.ev.result = protocol.hubs])

\* A client constructed and not started: discover_hubs is a static method.
InitDiscovery ==
    /\ Init
    /\ ~discover
    /\ pinned_valid

NextDiscovery ==
    \/ DiscoverHubs
    \/ DatagramReceived
    \/ WindowElapsed

SpecDiscovery == InitDiscovery /\ [][NextDiscovery]_vars

-----------------------------------------------------------------------------
(* Pushes: a synced client with pinned ip and serial receives temperature  *)
(* pushes, removes and frames the dispatcher does not know, loses its      *)
(* connection and bootstraps again, while the caller reads temperatures.   *)

\* The sensor of the kitchen, and a component the hub never describes.
KitchenSensor == "234000000001"
OtherSensor == "234000000002"

\* Frames with an opcode response_handler has no branch for.
UnknownFrames == {<<"X99", "1">>, <<"">>, <<REJECT, "1">>}

TemperatureFrames ==
    {<<RESPONSE_COMPONENT_TEMP, KitchenSensor, "21.5">>,
     <<RESPONSE_COMPONENT_TEMP, KitchenSensor, NOT_AVAILABLE>>,
     <<RESPONSE_COMPONENT_TEMP, OtherSensor, "19.0">>}

\* The component frame of the kitchen's sensor.
SensorFrame ==
    <<RESPONSE_COMPONENT_INFO, KitchenSensor, "0", "Sensor", "0", "1", "-1", "1">>

\* The frames the hub sends in the runs of SpecPush.
PushFrames ==
    {<<RESPONSE_SENDING_ALL_INFO>>, HubInfoFrame, KitchenFrame, ProfileFrame,
     SensorFrame,
     <<RESPONSE_REMOVE_ZONE, "1", "Kitchen", "2", "22", "18", "1", "-1">>,
     <<RESPONSE_REMOVE_COMPONENT, KitchenSensor, "0", "Sensor", "0", "1", "-1", "1">>,
     <<RESPONSE_REMOVE_WEEK_PROFILE, "2", "Default", KitchenProfile>>}
    \cup TemperatureFrames \cup UnknownFrames

\* One turn of socket_receive's loop on a frame of PushFrames, or on a
\* connection reset.
ReceivePush ==
    /\ pc.rx = "read"
    /\ Quiescent
    /\ \/ \E response \in PushFrames :
             Apply([socket_receive_frame(Begin("rx"), response) EXCEPT
                       !.ev.frame = response])
       \/ LET o == [err |-> "ECONNRESET", op |-> "-", short |-> FALSE]
          IN  Apply(socket_receive_except(get_response(Begin("rx"), o), o.err))

\* One turn of _get_initial_data's loop in the reconnect attempt, on a
\* frame of PushFrames; when the loop ends async_connect_hub invokes the
\* callbacks and returns True.
Bootstrap ==
    /\ pc.rx = "r_sync"
    /\ Quiescent
    /\ \E response \in PushFrames :
          LET o == [err |-> "-", op |-> response[1], short |-> FALSE]
              d == handle(get_response(Begin("rx"), o), response)
              t == IF d.ev.failed # "-" THEN attempt_raised(d, "rx", HandlerError)
                   ELSE IF d.received_all_info
                        THEN [attempt_ok([d EXCEPT !.synced = TRUE], "rx") EXCEPT
                                 !.ev.invoked = d.callbacks]
                   ELSE d
          IN  Apply([t EXCEPT !.ev.frame = response])

GetCurrentComponentTemperature ==
    /\ pc.caller = "idle"
    /\ \E serial \in {KitchenSensor, OtherSensor, "234000000003"} :
          Apply(get_current_component_temperature(
                   [Facade("get_current_component_temperature") EXCEPT
                       !.ev.arg = serial], serial))

GetCurrentZoneTemperature ==
    /\ pc.caller = "idle"
    /\ \E zone_id \in CallerZoneIds :
          Apply(get_current_zone_temperature(
                   [Facade("get_current_zone_temperature") EXCEPT
                       !.ev.arg = zone_id], zone_id))

InitPush ==
    /\ InitMirror
    /\ SteadyState

NextPush ==
    \/ ReceivePush
    \/ RetrySleepDone
    \/ ConnOpen("rx")
    \/ ConnHello("rx")
    \/ ConnHandshake("rx")
    \/ Bootstrap
    \/ GetCurrentComponentTemperature
    \/ GetCurrentZoneTemperature
    \/ KeepAliveCancelled
    \/ StopResume("rx")

SpecPush == InitPush /\ [][NextPush]_vars

-----------------------------------------------------------------------------
(* The wire: the Keep-Alive task and the caller of a started client send   *)
(* frames, each suspending where async_send_command awaits drain().  The   *)
(* transport sends the bytes it is given in the order it is given them.    *)

\* The longest byte stream after which a frame is still sent.
MaxWire == 24

\* ' '.join(commands)
RECURSIVE join(_)
join(commands) ==
    IF Len(commands) = 1 THEN commands[1]
    ELSE commands[1] \o " " \o join(Tail(commands))

send_write_TerminatorLater(s, p, commands) ==
    IF ~s.writer THEN s
    ELSE LET t == [s EXCEPT !.pc[p] = "drain"]
         IN  IF ~Usable(s.conn) THEN t
             ELSE [t EXCEPT !.wire = @ \o join(commands),
                            !.ev.sent = commands[1], !.ev.sentBy = p]

\* async_send_command of task p up to "await self._writer.drain()": the
\* message and its terminator are given to the writer in one call, and a
\* transport that was lost drops them.
send_write(s, p, commands) ==
    IF ~s.writer THEN s
    ELSE LET t == [s EXCEPT !.pc[p] = "drain"]
         IN  IF ~Usable(s.conn) THEN t
             ELSE [t EXCEPT !.wire = @ \o join(commands) \o "\r",
                            !.ev.sent = commands[1], !.ev.sentBy = p]

\* async_send_command of task p from drain() on; e is what drain() ends
\* with on a usable transport.
send_drained(s, p, e) ==
    LET resume == IF p = "ka" THEN "sleep" ELSE "idle"
        t == close(IF Usable(s.conn) THEN [s EXCEPT !.conn = e] ELSE s)
    IN  IF Usable(s.conn) /\ e = "-" THEN [s EXCEPT !.pc[p] = resume]
        ELSE IF p = "ka" /\ t.ev.failed # "-" THEN [t EXCEPT !.pc[p] = "failed"]
        ELSE [t EXCEPT !.pc[p] = resume]

\* The command lists the caller sends.
WireCommands ==
    {<<GET_ALL_INFO>>,
     <<ADD_OVERRIDE, "1", OVERRIDE_MODE_ECO, OVERRIDE_TYPE_CONSTANT, "-1", "-1",
       OVERRIDE_TARGET_ZONE, "1">>}

\* The Keep-Alive task's sleep ends.
WireKeepAliveWake ==
    /\ pc.ka = "sleep"
    /\ Quiescent
    /\ Len(wire) < MaxWire
    /\ LET s == Begin("ka")
       IN  Apply(IF ~s.keep_alive THEN s ELSE send_write(s, "ka", <<HANDSHAKE>>))

\* The caller sends a command.
WireSend ==
    /\ pc.caller = "idle"
    /\ Len(wire) < MaxWire
    /\ \E commands \in WireCommands :
          Apply(send_write(Facade("async_send_command"), "caller", commands))

\* drain() returns or raises in the task p.
WireDrained(p) ==
    /\ pc[p] = "drain"
    /\ \E e \in MirrorSendOutcomes : Apply(send_drained(Begin(p), p, e))

InitWire ==
    /\ InitMirror
    /\ SteadyState

NextWire ==
    \/ WireKeepAliveWake
    \/ WireSend
    \/ \E p \in {"ka", "caller"} : WireDrained(p)

SpecWire == InitWire /\ [][NextWire]_vars

-----------------------------------------------------------------------------
(* Restart: the caller may call start() again while the tasks of an        *)
(* earlier start() run.  The tasks that lose their reference are counted   *)
(* in orphans; stop() cancels only the tasks the attributes refer to.      *)

\* Most pairs of tasks left without a reference.
MaxOrphans == 1

\* start() on a started client in steady state: there is a writer, so
\* connect() is skipped, and the two tasks created are assigned over the
\* references to the running ones.
StartAgain ==
    /\ pc.caller = "idle"
    /\ writer
    /\ pc.ka = "sleep"
    /\ pc.rx = "read"
    /\ ~cancel.ka
    /\ ~cancel.rx
    /\ orphans.rx < MaxOrphans
    /\ LET s == [Begin("caller") EXCEPT !.fatal = NoFatal, !.ev.call = "start"]
       IN  Apply([start_tasks(s) EXCEPT
                     !.orphans = [ka |-> @.ka + 1, rx |-> @.rx + 1]])

\* The Receive task reads while a task without reference waits in
\* readuntil() on the same reader: StreamReader raises RuntimeError.
ReceiveBeside ==
    /\ pc.rx = "read"
    /\ orphans.rx > 0
    /\ Quiescent
    /\ Apply(Unhandled([Begin("rx") EXCEPT !.ev.failed = "RuntimeError"],
                       "RuntimeError"))

NextRestart ==
    \/ Next
    \/ StartAgain
    \/ ReceiveBeside

SpecRestart == Init /\ [][NextRestart]_vars

-----------------------------------------------------------------------------
(* create override: the caller of a synced client calls                    *)
(* async_create_override, for every Override map up to MaxOverrides        *)
(* entries.                                                                *)

\* The <<target_type, target_id>> the caller passes; target_id defaults to
\* '-1'.
CallerTargets ==
    {<<OVERRIDE_TARGET_GLOBAL, "-1">>, <<OVERRIDE_TARGET_ZONE, "1">>,
     <<OVERRIDE_TARGET_ZONE, "-1">>}

CreateOverrideWith ==
    /\ pc.caller = "idle"
    /\ \E mode \in {OVERRIDE_MODE_ECO, OVERRIDE_MODE_NORMAL}, target \in CallerTargets,
          e \in MirrorSendOutcomes :
          LET s == [Facade("async_create_override") EXCEPT
                       !.ev.arg = <<mode, OVERRIDE_TYPE_NOW, target[1], target[2]>>]
          IN  Apply(async_create_override(s, mode, OVERRIDE_TYPE_NOW, target[1],
                                          target[2], "-1", "-1", e))

NextCreateOverride == CreateOverrideWith

SpecCreateOverride == InitOverride /\ [][NextCreateOverride]_vars

-----------------------------------------------------------------------------
(* Properties.  ev describes the step that led to the state: who ran       *)
(* (ev.by), where it was suspended (ev.at), the frame it received          *)
(* (ev.recv) and gave to response_handler (ev.dispatched), the frame it    *)
(* put on the wire (ev.sent, ev.sentBy), the exception it met (ev.failed), *)
(* whether it created the tasks (ev.created) and which call returned       *)
(* (ev.ret).                                                               *)

\* The failures the specification classifies as transient.
TransientFailures ==
    {"ECONNRESET", "ECONNREFUSED", "EHOSTUNREACH", "EHOSTDOWN", "ENETDOWN",
     "ENETUNREACH", "ETIMEDOUT", IncompleteReadError}

\* The Receive task is inside async_connect_hub, on a reconnect candidate.
CandidatePcs == {"r_open", "r_hello", "r_hs", "r_sync"}

\* C1: from the dispatch of a sync-begin frame (H00) until the next
\* hub-info frame (H05) the sync flag is false after every frame, and it is
\* true right after the H05 is dispatched, whatever frames came in between.
C1_SyncFlagFollowsSync ==
    /\ syncOpen => ~received_all_info
    /\ ev.dispatched = RESPONSE_HUB_INFO => received_all_info

\* C1 witness: a hub-info-update frame (V03) was dispatched inside a sync
\* and the flag is still false.
C1_Witness ==
    /\ syncOpen
    /\ ev.dispatched = RESPONSE_UPDATE_HUB_INFO
    /\ ~received_all_info

\* C2: async_connect_hub sends HANDSHAKE only on receiving a HELLO reply
\* and G00 only on receiving a HANDSHAKE reply, and start creates the tasks
\* only after the bootstrap of the connection dispatched its H05.
C2_HandshakeOrderThenTasks ==
    /\ (ev.sentBy = "connect" /\ ev.sent = HANDSHAKE) => ev.recv = START
    /\ ev.sent = GET_ALL_INFO => ev.recv = HANDSHAKE
    /\ ev.created => synced

\* C3: in the Receive loop a failure leads into reconnect_hub only if it is
\* in the transient set; any other failure makes no reconnect attempt and
\* goes to the fatal handler.
C3_ReconnectOnlyOnTransient ==
    (ev.by = "rx" /\ ev.at = "read" /\ ev.failed # "-") =>
        /\ pc.rx \in ReconnectPcs => ev.failed \in TransientFailures
        /\ ev.failed \notin TransientFailures =>
              /\ pc.rx \in {"stop_ka", "done"}
              /\ fatal.cause = ev.failed

\* C3 witness: a broken pipe (EPIPE, not in the set) in the Receive loop
\* sent the task to stop().
C3_Witness ==
    /\ ev.by = "rx"
    /\ ev.at = "read"
    /\ ev.failed = "EPIPE"
    /\ pc.rx \in {"stop_ka", "done"}

\* C4: a transient failure, in steady state or on a candidate during
\* reconnection, leaves the Receive task alive in the reconnect loop.
C4_TransientNeverTerminates ==
    (/\ ev.by = "rx"
     /\ ev.failed \in TransientFailures
     /\ ev.at \in CandidatePcs \/ (ev.at = "read" /\ synced))
    => pc.rx \in ReconnectPcs

\* C5: on entering reconnect_hub, before rediscovery or the retry sleep,
\* the stale socket is closed and the client holds no writer.
C5_StaleSocketClosedOnEntry ==
    (ev.by = "rx" /\ ev.at = "read" /\ pc.rx \in {"rediscover", "sleep10"})
    => (~writer /\ ~Usable(conn))

\* C6: while the Receive task is inside reconnect_hub the client holds no
\* writer, and no frame sent through the facade reaches the wire.
C6_NoFacadeFrameDuringReconnect ==
    /\ pc.rx \in ReconnectPcs => ~writer
    /\ ev.sentBy = "facade" => pc.rx \notin ReconnectPcs

\* C7: the Keep-Alive task sends no heartbeat while the Receive task is
\* inside reconnect_hub; when reconnect_hub returns after a successful
\* attempt no task was created, the Keep-Alive task is the live one and is
\* active again, and the Receive loop reads the new, bootstrapped
\* connection.
C7_KeepAlivePausedAndResumed ==
    /\ ev.sentBy = "ka" => pc.rx \notin ReconnectPcs
    /\ ev.ret = "reconnected" =>
          /\ ~ev.created
          /\ pc.ka = "sleep" /\ ~cancel.ka /\ keep_alive
          /\ pc.rx = "read" /\ Usable(conn) /\ synced

\* C8: when the caller's stop() returns, both tasks have terminated, the
\* socket is closed and the client holds no writer.
C8_StopLeavesNothingRunning ==
    (ev.by = "caller" /\ ev.ret = "stop") =>
        /\ pc.ka \in {"none", "done"}
        /\ pc.rx \in {"none", "done"}
        /\ ~writer
        /\ ~Usable(conn)

\* C9: after a non-transient failure in steady state, once the Receive
\* task has terminated, the Keep-Alive task is cancelled, the socket is
\* closed and the writer reference is cleared.
C9_FatalFailureStopsClient ==
    (fatal.steady /\ pc.rx = "done") =>
        /\ pc.ka = "done"
        /\ ~Usable(conn)
        /\ ~writer

\* The step was a connection attempt of start() ended by a protocol
\* violation: a first reply that is neither HELLO nor REJECT, a second reply
\* that is not HANDSHAKE, or the bootstrap timing out.
ProtocolViolation ==
    /\ ev.by = "caller"
    /\ ev.ret = "start_raised"
    /\ \/ ev.at = "hello" /\ ev.recv \notin {"-", START, REJECT}
       \/ ev.at = "hs" /\ ev.recv \notin {"-", HANDSHAKE}
       \/ ev.at = "sync" /\ ev.failed = TimeoutError

\* C10: a protocol violation during a connection attempt leaves the socket
\* closed and the client without a writer.
C10_ViolationTearsDown == ProtocolViolation => (~writer /\ ~Usable(conn))

\* The pcs of the caller inside connect().
ConnectPcs == {"discover", "open", "hello", "hs", "sync"}

\* C11: when the hub answers HELLO with REJECT in connect(), the socket is
\* closed and no writer is left; with discovery and a candidate left the
\* next candidate is tried and nothing is raised; with no candidate left, or
\* with ip and serial pinned, start raises.
C11_RejectIsPerCandidate ==
    [][(ev'.by = "caller" /\ ev'.at = "hello" /\ ev'.recv = REJECT) =>
          /\ ~writer' /\ ~Usable(conn')
          /\ IF discover /\ discovered_hubs > 0
             THEN pc'.caller = "open" /\ ev'.ret = "-" /\ ev'.failed = "-"
             ELSE pc'.caller = "idle" /\ ev'.ret = "start_raised"]_vars

\* C11 witness: a discovered hub answered REJECT and the next discovered
\* candidate is being connected.
C11_Witness ==
    /\ ev.by = "caller" /\ ev.at = "hello" /\ ev.recv = REJECT
    /\ discover
    /\ pc.caller = "open"
    /\ ~writer

\* C12: every failure of the initial connect is raised by start, and a
\* start that raises has created neither task.
C12_ConnectFailureRaisedNoTasks ==
    /\ (/\ ev.by = "caller"
        /\ ev.call = "start" \/ ev.at \in ConnectPcs
        /\ ev.failed # "-") => ev.ret = "start_raised"
    /\ ev.ret = "start_raised" =>
          /\ ~ev.created
          /\ pc.caller = "idle"
          /\ pc.ka \notin {"init", "sleep"}
          /\ pc.rx \in {"none", "done"} \/ cancel.rx

\* C12 witness: every discovered candidate answered REJECT and start
\* raised.
C12_Witness ==
    /\ ev.ret = "start_raised"
    /\ ev.recv = REJECT
    /\ discover
    /\ pc.ka \in {"none", "done"}

\* Two maps hold the same keys in the same order, and their records differ
\* at most in the fields named.
SameBut(m1, m2, fields) ==
    /\ Len(m1) = Len(m2)
    /\ \A i \in 1..Len(m1) :
          /\ m1[i][1] = m2[i][1]
          /\ DOMAIN m1[i][2] = DOMAIN m2[i][2]
          /\ \A k \in DOMAIN m1[i][2] \ fields : m1[i][2][k] = m2[i][2][k]

\* C13 as stated: the Zone, Component, WeekProfile, Override and HubInfo
\* contents of the mirror change only in a step that dispatches a received
\* frame; no facade operation changes them.
C13_OnlyDispatchWritesMirror ==
    [][MirrorMaps' # MirrorMaps => ev'.dispatched # "-"]_vars

\* C13 amended: the contents change only in a step that dispatches a
\* received frame, or by the save of create override (the mode and type
\* fields of overrides already mirrored) or of update zone (the
\* temp_comfort_c and temp_eco_c fields of a zone already mirrored); no
\* facade operation adds or removes an entry, and send command, the queries
\* and register/deregister callback change nothing.
C13_FacadeWritesOnlySavedFields ==
    [][MirrorMaps' # MirrorMaps =>
          \/ ev'.dispatched # "-"
          \/ /\ ev'.call = "async_create_override"
             /\ <<hub_info, zones, components, week_profiles>>'
                   = <<hub_info, zones, components, week_profiles>>
             /\ SameBut(overrides, overrides', {"mode", "type"})
          \/ /\ ev'.call = "async_update_zone"
             /\ <<hub_info, components, week_profiles, overrides>>'
                   = <<hub_info, components, week_profiles, overrides>>
             /\ SameBut(zones, zones', {"temp_comfort_c", "temp_eco_c"})]_vars

\* C13 witness: create override has just set a mirrored override to eco, a
\* mode no frame of the hub gave it.
C13_Witness ==
    /\ ev.call = "async_create_override"
    /\ ev.dispatched = "-"
    /\ \E i \in 1..Len(overrides) : overrides[i][2]["mode"] = OVERRIDE_MODE_ECO

\* The facade calls that need a writer.
WriterCalls == {"async_send_command", "async_create_override", "async_update_zone"}

\* C14: when the client holds no writer, a facade call that needs one is a
\* no-op: no frame is put on the wire, no error is raised, and nothing of
\* the command stays behind in the client.
C14_NoWriterFacadeIsNoOp ==
    [][(~writer /\ ev'.call \in WriterCalls) =>
          /\ ev'.sent = "-"
          /\ ev'.failed = "-"
          /\ UNCHANGED <<writer, conn, pc, cancel, keep_alive, received_all_info,
                         callbacks, temperatures, MirrorMaps>>]_vars

\* C15: in steady state, for a received frame that is neither a heartbeat
\* echo nor an error frame the dispatcher is applied and then every
\* registered callback is invoked once, in registration order (so a callback
\* that was deregistered is not invoked); for a heartbeat echo the mirror is
\* unchanged and no callback is invoked.
C15_DispatchThenCallbacks ==
    [][(ev'.by = "rx" /\ ev'.at = "read" /\ ev'.recv # "-") =>
          IF ev'.recv = HANDSHAKE
          THEN /\ UNCHANGED <<MirrorMaps, temperatures>>
               /\ ev'.dispatched = "-"
               /\ ev'.invoked = <<>>
          ELSE IF ev'.recv \in ErrorOpcodes THEN TRUE
          ELSE /\ ev'.dispatched = ev'.recv
               /\ ev'.invoked = callbacks]_vars

\* C16: a received frame whose opcode starts with E is only logged: it is
\* not passed to the dispatcher, no callback is invoked, the mirror is
\* unchanged, nothing is raised and the Receive loop reads the next frame.
C16_ErrorFrameOnlyLogged ==
    [][(ev'.by = "rx" /\ ev'.at = "read" /\ ev'.recv \in ErrorOpcodes) =>
          /\ ev'.dispatched = "-"
          /\ ev'.invoked = <<>>
          /\ UNCHANGED <<MirrorMaps, temperatures>>
          /\ ev'.failed = "-"
          /\ pc'.rx = "read"]_vars

\* The places in the Override map of the non-normal overrides that target
\* zone zone_id, and of the non-normal global overrides.
ZoneMatches(zone_id) ==
    {i \in 1..Len(overrides) :
        /\ overrides[i][2]["mode"] # OVERRIDE_MODE_NORMAL
        /\ overrides[i][2]["target_type"] = OVERRIDE_TARGET_ZONE
        /\ overrides[i][2]["target_id"] = zone_id}

GlobalMatches ==
    {i \in 1..Len(overrides) :
        /\ overrides[i][2]["mode"] # OVERRIDE_MODE_NORMAL
        /\ overrides[i][2]["target_type"] = OVERRIDE_TARGET_GLOBAL}

First(S) == CHOOSE i \in S : \A j \in S : i <= j
Last(S) == CHOOSE i \in S : \A j \in S : j <= i

\* The name of the mode of the override at place i.
ModeNameAt(i) == DICT_OVERRIDE_MODE_TO_NAME[overrides[i][2]["mode"]]

\* C17: for every zone and every Override map that holds a non-normal
\* override targeting the zone, get_zone_override_mode returns the mode of
\* the first such override in insertion order, whatever global overrides
\* exist before or after it.
C17_FirstZoneMatchWins ==
    \A zone_id \in Keys(zones) :
        ZoneMatches(zone_id) # {} =>
            get_zone_override_mode(State, zone_id) = ModeNameAt(First(ZoneMatches(zone_id)))

\* C17 witness: zone 1 was asked for and the answer is the eco of its own
\* override, which arrived between two global comfort overrides.
C17_Witness ==
    /\ ev.call = "get_zone_override_mode"
    /\ ev.arg = "1"
    /\ ev.result = NAME_ECO
    /\ Get(zones, "1")["override_allowed"] = "1"
    /\ ZoneMatches("1") = {2}
    /\ GlobalMatches = {1, 3}
    /\ ModeNameAt(1) = NAME_COMFORT /\ ModeNameAt(3) = NAME_COMFORT

\* The Override map without the item at place i.
Without(i) == [j \in 1..(Len(overrides) - 1) |->
                  IF j < i THEN overrides[j] ELSE overrides[j + 1]]

\* C18: overrides of mode normal have no effect on get_zone_override_mode:
\* the result is "normal" when the map is empty or holds only normal
\* overrides, taking a normal override out never changes the result, and
\* when the result is "normal" get_current_zone_mode returns what
\* get_week_profile_status returns for the zone's week profile.
C18_NormalOverridesHaveNoEffect ==
    \A zone_id \in Keys(zones) :
        /\ (\A i \in 1..Len(overrides) : overrides[i][2]["mode"] = OVERRIDE_MODE_NORMAL)
              => get_zone_override_mode(State, zone_id) = NAME_NORMAL
        /\ \A i \in 1..Len(overrides) :
              overrides[i][2]["mode"] = OVERRIDE_MODE_NORMAL =>
                  get_zone_override_mode([State EXCEPT !.overrides = Without(i)], zone_id)
                      = get_zone_override_mode(State, zone_id)
        /\ get_zone_override_mode(State, zone_id) = NAME_NORMAL =>
              \A now \in QueryTimes :
                  get_current_zone_mode(State, zone_id, now[1], now[2], now[3])
                      = get_week_profile_status(State,
                                                Get(zones, zone_id)["week_profile_id"],
                                                now[1], now[2], now[3])

\* C18 witness: zone 1 has a normal override of its own ahead of a global
\* eco override it does not allow; asked on Monday at 06:00 the client has
\* answered with the comfort of the week profile.
C18_Witness ==
    /\ ev.call = "get_current_zone_mode"
    /\ ev.arg = "1"
    /\ ev.when = <<0, 6, 0>>
    /\ ev.result = NAME_COMFORT
    /\ Len(overrides) = 2
    /\ overrides[1][2]["mode"] = OVERRIDE_MODE_NORMAL
    /\ overrides[1][2]["target_id"] = "1"
    /\ GlobalMatches = {2} /\ ModeNameAt(2) = NAME_ECO
    /\ Get(zones, "1")["override_allowed"] = "0"

\* C19: when no override on the zone applies, a non-normal global override
\* sets the mode only if the zone's override_allowed is "1", and the last
\* of several global overrides wins; when override_allowed is not "1" the
\* global overrides are ignored, while an override on the zone still
\* applies.
C19_GlobalOnlyIfAllowedLastWins ==
    \A zone_id \in Keys(zones) :
        LET allowed == Get(zones, zone_id)["override_allowed"] = "1"
            mode == get_zone_override_mode(State, zone_id)
        IN  /\ ZoneMatches(zone_id) = {} =>
                  mode = IF allowed /\ GlobalMatches # {}
                         THEN ModeNameAt(Last(GlobalMatches))
                         ELSE NAME_NORMAL
            /\ (~allowed /\ ZoneMatches(zone_id) # {}) =>
                  mode = ModeNameAt(First(ZoneMatches(zone_id)))

\* C19 witness: zone 2 allows overrides and was asked for; of the global
\* overrides comfort then eco, with a normal one on the zone in between,
\* the answer is the later one's eco.
C19_Witness ==
    /\ ev.call = "get_zone_override_mode"
    /\ ev.arg = "2"
    /\ ev.result = NAME_ECO
    /\ ZoneMatches("2") = {}
    /\ GlobalMatches = {1, 3}
    /\ ModeNameAt(1) = NAME_COMFORT /\ ModeNameAt(3) = NAME_ECO
    /\ overrides[2][2]["target_id"] = "2"

\* The time of entry i of a profile, as the number HHMM.
TimeOf(profile, i) == int(SubSeq(profile[i], 1, 4))

\* The weekday whose group entry i of a profile belongs to: entry 1 opens
\* Monday's, and every later entry at 0000 opens the next weekday's.
DayOf(profile, i) == Cardinality({j \in 2..i : TimeOf(profile, j) = 0})

\* The entries of weekday's group that are not after the target time.
Due(profile, weekday, target) ==
    {i \in 1..Len(profile) :
        DayOf(profile, i) = weekday /\ TimeOf(profile, i) <= target}

\* The times of every group are in ascending order.
Chronological(profile) ==
    \A i \in 2..Len(profile) :
        TimeOf(profile, i) = 0 \/ TimeOf(profile, i - 1) <= TimeOf(profile, i)

\* The profiles that differ from profile in one entry, which is not entry 1,
\* is of another weekday's group than weekday, and opens a group in both
\* or in neither.
ChangedElsewhere(profile, weekday) ==
    UNION {{[profile EXCEPT ![i] = e] :
               e \in {x \in EntryChoices :
                         (SubSeq(x, 1, 4) = <<"0", "0", "0", "0">>)
                             = (TimeOf(profile, i) = 0)}} :
           i \in {j \in 2..Len(profile) : DayOf(profile, j) # weekday}}

\* The client with profile as its week profile 9.
WithProfile(profile) ==
    [State EXCEPT !.week_profiles =
        <<<<"9", [week_profile_id |-> "9", name |-> "Default", profile |-> profile]>>>>]

DecidingEntry(profile, weekday, hour, minute) ==
    scan_profile_entry(profile, 2, 0, 1, weekday, (hour * 100) + minute)

\* The times of day the caller asks for, as <<hour, minute>>.
TimesOfDay == {<<dt[2][1], dt[2][2]>> : dt \in ScheduleTimes}

Earlier(t1, t2) == (t1[1] * 100) + t1[2] <= (t2[1] * 100) + t2[2]

\* C21: the schedule evaluator is monotonic within a day.  For the profile
\* and the weekday of the query just answered, the answer is the state of
\* the deciding entry, and at no earlier time of that day is the deciding
\* entry one of greater index.
C21_DecidingEntryNeverGoesBack ==
    ev.call = "get_week_profile_status" =>
        LET profile == Get(week_profiles, ev.arg)["profile"]
            t2 == <<ev.when[2], ev.when[3]>>
            e2 == DecidingEntry(profile, ev.when[1], t2[1], t2[2])
        IN  /\ ev.result = DICT_WEEK_PROFILE_STATUS_TO_NAME[profile[e2][5]]
            /\ \A t1 \in TimesOfDay :
                  Earlier(t1, t2) =>
                      DecidingEntry(profile, ev.when[1], t1[1], t1[2]) <= e2

\* A query late on a day whose deciding entry comes after the one that
\* decides at midnight, on a profile whose entries of that day are not in
\* order of time.
C21_Witness ==
    /\ ev.call = "get_week_profile_status"
    /\ LET profile == Get(week_profiles, ev.arg)["profile"]
       IN  /\ ev.when = <<0, 23, 59>>
           /\ Len(profile) = 3
           /\ TimeOf(profile, 2) = 1200
           /\ TimeOf(profile, 3) = 600
           /\ DecidingEntry(profile, 0, 0, 0) = 1
           /\ DecidingEntry(profile, 0, 23, 59) = 3


\* C22: after a component add, info or update frame whose zone_id is "-1"
\* and whose tempsensor_for_zone_id is not, the Component map holds the
\* component under its serial with zone_id equal to tempsensor_for_zone_id;
\* and no mirrored component that is the temperature sensor of a zone has
\* zone_id "-1".
C22_SensorMirroredInItsZone ==
    /\ (/\ ev.frame # <<>>
        /\ ev.frame[1] \in ComponentOps
        /\ ev.frame[6] = "-1"
        /\ ev.frame[8] # "-1")
           => /\ ev.frame[2] \in Keys(components)
              /\ Get(components, ev.frame[2])["zone_id"] = ev.frame[8]
    /\ \A i \in 1..Len(components) :
          components[i][2]["tempsensor_for_zone_id"] # "-1"
              => components[i][2]["zone_id"] # "-1"


\* Every key of the map is the id field of the record stored under it.
KeyedBy(map, id) ==
    \A i \in 1..Len(map) : id \in DOMAIN map[i][2] /\ map[i][1] = map[i][2][id]

\* C23: after any sequence of dispatched frames, every key of the Zone,
\* Component, WeekProfile and Override maps equals the id field (zone_id,
\* serial, week_profile_id, override_id) of the entity stored under it, and
\* no key occurs twice.
C23_KeysAreIds ==
    /\ KeyedBy(zones, "zone_id")
    /\ KeyedBy(components, "serial")
    /\ KeyedBy(week_profiles, "week_profile_id")
    /\ KeyedBy(overrides, "override_id")
    /\ \A map \in {zones, components, week_profiles, overrides} :
          Cardinality(Keys(map)) = Len(map)

\* Two zones, a week profile and an override are mirrored, zone 1 updated
\* after zone 2 was added.
C23_Witness ==
    /\ Len(zones) = 2
    /\ zones[1][1] = "1"
    /\ zones[1][2]["name"] = "Cuisine"
    /\ zones[2][1] = "2"
    /\ Len(week_profiles) = 1
    /\ Len(overrides) = 1
    /\ ev.frame # <<>>
    /\ ev.frame[1] = RESPONSE_UPDATE_ZONE
    /\ ev.before = 5


\* C24: dispatching a sync-begin frame (H00) empties the HubInfo, Zone,
\* Component, WeekProfile and Override parts of the mirror and marks the
\* sync incomplete, whatever the mirror held.
C24_SyncBeginClearsMirror ==
    ev.frame = <<RESPONSE_SENDING_ALL_INFO>> =>
        /\ hub_info = <<>>
        /\ zones = <<>>
        /\ components = <<>>
        /\ week_profiles = <<>>
        /\ overrides = <<>>
        /\ ~received_all_info

\* The H00 arrived at a synced client whose mirror held the hub's record,
\* two zones, a week profile and an override.
C24_Witness ==
    /\ ev.frame = <<RESPONSE_SENDING_ALL_INFO>>
    /\ ev.before = 5
    /\ ev.dispatched = RESPONSE_SENDING_ALL_INFO
    /\ Records(State) = 0


\* The whole mirror, with the sync flag.
Mirror ==
    <<hub_info, zones, components, week_profiles, overrides, temperatures,
      received_all_info>>

\* C25: dispatch is idempotent for zone frames.  When the Receive task
\* dispatches the zone add, info or update frame it has just dispatched,
\* the whole mirror stays as the first dispatch left it.
C25_ZoneFrameTwiceIsOnce ==
    [][(/\ ev'.repeat
        /\ ev'.frame \in ZoneFrames
        /\ ev'.dispatched = ev'.frame[1])
           => Mirror' = Mirror]_vars

\* The update of zone 1 was dispatched twice in a row, zone 2 mirrored
\* after it.
C25_Witness ==
    /\ ev.repeat
    /\ ev.frame \in ZoneFrames
    /\ ev.frame[1] = RESPONSE_UPDATE_ZONE
    /\ ev.dispatched = RESPONSE_UPDATE_ZONE
    /\ Len(zones) = 2
    /\ zones[1][2]["name"] = "Cuisine"


\* The datagram is the broadcast of a hub.
IsBeacon(data) ==
    data.utf8 /\ \E prefix \in BeaconPrefixes : data.text = NOBOHUB \o prefix

BeaconPrefix(data) == CHOOSE prefix \in BeaconPrefixes : data.text = NOBOHUB \o prefix

\* The two filters of a discovery.
SerialPasses(serial, prefix) == Len(serial) = 12 => prefix = SubSeq(serial, 1, 9)
IpPasses(ip, source) == ip # None => source = ip

\* C26: discovery accepts a beacon (ip, 9-digit prefix) exactly when both
\* filters pass: with a 12-digit caller serial the prefix equals its first
\* 9 digits and the accepted serial is the caller's; with a shorter one the
\* accepted serial is the prefix followed by the caller's value; with an
\* ip filter the source ip equals it.  Any other beacon, and a datagram
\* without the magic prefix, adds nothing; the pairs accepted are what
\* async_discover_hubs returns.
C26_BeaconAcceptedIffFiltersPass ==
    [][/\ ev'.call = "datagram_received" =>
             LET data == ev'.arg[1]
                 source == ev'.arg[2][1]
                 prefix == BeaconPrefix(data)
                 accepted ==
                     IF /\ IsBeacon(data)
                        /\ SerialPasses(protocol.serial, prefix)
                        /\ IpPasses(protocol.ip, source)
                     THEN {<<source, IF Len(protocol.serial) = 12 THEN protocol.serial
                                     ELSE prefix \o protocol.serial>>}
                     ELSE {}
             IN  protocol' = [protocol EXCEPT !.hubs = @ \cup accepted]
       /\ ev'.ret = "async_discover_hubs" => ev'.result = protocol.hubs]_vars

\* Looking for hub 102000000001 at 10.0.0.2, the protocol has accepted
\* that hub's beacon and has just seen the beacon of another hub from the
\* same address.
C26_Witness ==
    /\ ev.call = "datagram_received"
    /\ ev.arg = <<[utf8 |-> TRUE, text |-> NOBOHUB \o "103000000"],
                  <<"10.0.0.2", SourcePort>>>>
    /\ protocol = [serial |-> "102000000001", ip |-> "10.0.0.2",
                   hubs |-> {<<"10.0.0.2", "102000000001">>}]


\* The client after response_handler has taken, in order, the sync-begin
\* frame, the info frame of zone 1 (Kitchen, week profile 2, overrides
\* allowed), the info frame of week profile 2 and the hub-info frame.
AfterKitchenSync(s) ==
    handle(handle(handle(handle(s, <<RESPONSE_SENDING_ALL_INFO>>), KitchenFrame),
                  ProfileFrame),
           HubInfoFrame)

\* The times asked for that fall in the comfort window of week profile 2:
\* Monday from 06:00 to 22:00.
ComfortTimes ==
    {now \in QueryTimes :
        now[1] = 0 /\ 600 <= (now[2] * 100) + now[3] /\ (now[2] * 100) + now[3] < 2200}

\* C27: whatever the mirror held, after the frames H00, H01 (zone 1,
\* Kitchen, week profile 2, overrides allowed), H03 (week profile 2) and
\* H05 are dispatched in this order the mirror contains exactly one zone,
\* named Kitchen with week_profile_id "2", the sync is marked complete, and
\* get_current_zone_mode for zone 1 at a time in a comfort window of the
\* profile returns "comfort"; the caller who asks the client in that state
\* is answered so.
C27_KitchenSyncEndToEnd ==
    /\ pc.rx = "read" =>
          LET s == AfterKitchenSync(State)
          IN  /\ Len(s.zones) = 1
              /\ Keys(s.zones) = {"1"}
              /\ Get(s.zones, "1")["name"] = "Kitchen"
              /\ Get(s.zones, "1")["week_profile_id"] = "2"
              /\ s.received_all_info
              /\ s.ev.failed = "-"
              /\ \A now \in ComfortTimes :
                    get_current_zone_mode(s, "1", now[1], now[2], now[3]) = NAME_COMFORT
    /\ (/\ ev.call = "get_current_zone_mode"
        /\ ev.arg = "1"
        /\ ev.when \in ComfortTimes
        /\ pc.rx = "read"
        /\ LET s == AfterKitchenSync(State)
           IN  <<s.hub_info, s.zones, s.components, s.week_profiles, s.overrides,
                 s.received_all_info>>
               = <<hub_info, zones, components, week_profiles, overrides,
                   received_all_info>>)
           => ev.result = NAME_COMFORT

\* After the sync the client held zone 1 alone, and was asked for its mode
\* on Monday at 06:00.
C27_Witness ==
    /\ ev.call = "get_current_zone_mode"
    /\ ev.arg = "1"
    /\ ev.when = <<0, 6, 0>>
    /\ ev.result = NAME_COMFORT
    /\ received_all_info
    /\ hub_info = zip(STRUCT_KEYS_HUB, Tail(HubInfoFrame))
    /\ zones = <<<<"1", zip(STRUCT_KEYS_ZONE, Tail(KitchenFrame))>>>>
    /\ week_profiles = <<<<"2", [week_profile_id |-> "2", name |-> "Default",
                                profile |-> KitchenProfile]>>>>
    /\ components = <<>>
    /\ overrides = <<>>


C29_HubInfoReplacedFlagOnlyByInfo ==
    [][ev'.frame \in HubInfoFrames =>
          LET f == ev'.frame
          IN  /\ ev'.dispatched = f[1]
              /\ hub_info' = [serial |-> f[2], name |-> f[3],
                              default_away_override_length |-> f[4],
                              override_id |-> f[5], software_version |-> f[6],
                              hardware_version |-> f[7], production_date |-> f[8]]
              /\ f[1] = RESPONSE_HUB_INFO => received_all_info'
              /\ f[1] = RESPONSE_UPDATE_HUB_INFO
                    => received_all_info' = received_all_info]_vars

\* A hub-info update arrived after a sync had begun and zone 1 had been
\* sent: the hub's record is the update's, the sync still incomplete.
C29_Witness ==
    /\ ev.frame \in HubInfoFrames
    /\ ev.frame[1] = RESPONSE_UPDATE_HUB_INFO
    /\ ev.dispatched = RESPONSE_UPDATE_HUB_INFO
    /\ ~received_all_info
    /\ hub_info # <<>>
    /\ hub_info["name"] = "Cabin"
    /\ Len(zones) = 1

\* The map without the entry of key id, the others in their order.
Removed(map, id) ==
    IF id \notin Keys(map) THEN map
    ELSE LET at == CHOOSE i \in 1..Len(map) : map[i][1] = id
         IN  [j \in 1..(Len(map) - 1) |-> IF j < at THEN map[j] ELSE map[j + 1]]

\* C30: dispatching a zone, component, week-profile or override remove
\* frame (S00, S01, S02, S03) deletes the entry with the frame's id from the
\* corresponding map and nothing else; when no entry has that id the mirror
\* is unchanged; no error is raised in either case.
C30_RemoveDeletesById ==
    [][ev'.frame \in RemoveFrames =>
          LET f == ev'.frame
              after(map, op) == IF f[1] = op THEN Removed(map, f[2]) ELSE map
          IN  /\ ev'.dispatched = f[1]
              /\ ev'.failed = "-"
              /\ fatal' = fatal
              /\ pc'.rx = "read"
              /\ zones' = after(zones, RESPONSE_REMOVE_ZONE)
              /\ components' = after(components, RESPONSE_REMOVE_COMPONENT)
              /\ week_profiles' = after(week_profiles, RESPONSE_REMOVE_WEEK_PROFILE)
              /\ overrides' = after(overrides, RESPONSE_REMOVE_OVERRIDE)
              /\ hub_info' = hub_info
              /\ temperatures' = temperatures
              /\ received_all_info' = received_all_info]_vars

\* Zone 1 was removed from a mirror that held it before zone 2; the
\* Receive task reads on.
C30_Witness ==
    /\ ev.frame \in RemoveFrames
    /\ ev.frame[1] = RESPONSE_REMOVE_ZONE
    /\ ev.dispatched = RESPONSE_REMOVE_ZONE
    /\ ev.before = Records(State) + 1
    /\ Keys(zones) = {"2"}
    /\ Len(week_profiles) = 1
    /\ pc.rx = "read"


\* C31: dispatching a frame whose opcode the dispatcher does not know
\* leaves the whole mirror, the Temperature map and the sync flag unchanged,
\* raises nothing and leaves the Receive loop reading: the frames that
\* follow are dispatched.
C31_UnknownOpcodeIgnored ==
    [][ev'.frame \in UnknownFrames =>
          /\ ev'.dispatched = ev'.frame[1]
          /\ ev'.failed = "-"
          /\ fatal' = fatal
          /\ UNCHANGED <<MirrorMaps, temperatures, writer, conn, cancel>>
          /\ ev'.at = "read" => (received_all_info' = received_all_info
                                  /\ pc'.rx = "read")
          /\ ev'.at = "r_sync" => (~received_all_info' /\ pc'.rx = "r_sync")]_vars

\* A frame with opcode X99 was dispatched in steady state on a mirror
\* holding zone 1 and a reading of its sensor; the Receive task reads on.
C31_Witness ==
    /\ ev.frame = <<"X99", "1">>
    /\ ev.at = "read"
    /\ ev.dispatched = "X99"
    /\ KitchenSensor \in Keys(temperatures)
    /\ Keys(zones) = {"1"}
    /\ pc.rx = "read"
    /\ received_all_info


\* The frames as they are written: the fields joined by spaces, then \r.
WireFrames == {join(commands) \o "\r" : commands \in WireCommands \cup {<<HANDSHAKE>>}}

\* w is a concatenation of whole frames.
RECURSIVE WholeFrames(_)
WholeFrames(w) ==
    \/ w = ""
    \/ \E written \in WireFrames :
          /\ Len(written) <= Len(w)
          /\ SubSeq(w, 1, Len(written)) = written
          /\ WholeFrames(SubSeq(w, Len(written) + 1, Len(w)))

\* C32: whatever the interleaving of the Keep-Alive task and the caller's
\* command sends, the bytes written are a concatenation of whole frames,
\* each with its terminating \r; every step writes nothing or one whole
\* frame at the end of the stream.
C32_WholeFramesOnWire ==
    /\ WholeFrames(wire)
    /\ ev.sent # "-" =>
          \E written \in WireFrames :
             /\ Len(written) <= Len(wire)
             /\ SubSeq(wire, Len(wire) - Len(written) + 1, Len(wire)) = written
             /\ SubSeq(written, 1, Len(ev.sent)) = ev.sent

\* The caller wrote G00 while the Keep-Alive task was suspended in the
\* drain() of its heartbeat, and both are suspended there.
C32_Witness ==
    /\ pc.ka = "drain"
    /\ pc.caller = "drain"
    /\ ev.sentBy = "caller"
    /\ wire = "HANDSHAKE\rG00\r"


\* The places in the Component map of the components of the zone that have
\* a reading other than "N/A".
WithReading(zone_id) ==
    {i \in 1..Len(components) :
        /\ components[i][2]["zone_id"] = zone_id
        /\ components[i][1] \in Keys(temperatures)
        /\ Get(temperatures, components[i][1]) # NOT_AVAILABLE}

\* The reading of the first of them, or no value.
FirstReading(zone_id) ==
    IF WithReading(zone_id) = {} THEN None
    ELSE Get(temperatures, components[First(WithReading(zone_id))][1])

C34_ReconnectedMeansConnected ==
    ev.ret \in {"reconnected", "reconnect_exhausted"}
        => /\ keep_alive
           /\ writer
           /\ conn = "open"
           /\ synced
           /\ received_all_info
           /\ ev.recv # REJECT


\* The tasks that are live: those the attributes refer to, and the others.
LiveKeepAliveTasks == orphans.ka + (IF pc.ka \in {"init", "sleep"} THEN 1 ELSE 0)
LiveReceiveTasks == orphans.rx + (IF pc.rx \in {"none", "done"} THEN 0 ELSE 1)

\* C35: after any sequence of start and stop calls at most one Keep-Alive
\* task and at most one Receive task are live; start on a started client
\* creates no second pair.
C35_AtMostOnePairOfTasks ==
    /\ LiveKeepAliveTasks <= 1
    /\ LiveReceiveTasks <= 1
    /\ (ev.call = "start" /\ ev.created) => orphans = NoOrphans


\* C36: whenever registered callbacks are invoked the sync flag is
\* complete and no sync is in progress: no callback sees the mirror between
\* a sync-begin frame and the hub-info frame that ends the sync.
C36_CallbacksSeeCompleteSync ==
    ev.invoked # <<>> => (received_all_info /\ ~syncOpen)


\* C37: the Temperature map changes only when a temperature push (Y02) is
\* dispatched, and then by the upsert of its reading; a sync-begin frame, a
\* component remove frame and every step of a reconnection leave it as it
\* was.
C37_OnlyPushesWriteTemperatures ==
    [][/\ temperatures' # temperatures
          => /\ ev'.frame # <<>>
             /\ ev'.frame[1] = RESPONSE_COMPONENT_TEMP
             /\ ev'.dispatched = RESPONSE_COMPONENT_TEMP
             /\ temperatures' = Put(temperatures, ev'.frame[2], ev'.frame[3])
       /\ (ev'.frame # <<>> /\ ev'.frame[1] \in {RESPONSE_SENDING_ALL_INFO,
                                              RESPONSE_REMOVE_COMPONENT})
          => temperatures' = temperatures
       /\ (pc.rx \in ReconnectPcs \/ pc'.rx \in ReconnectPcs)
          => (temperatures' = temperatures \/ ev'.at = "r_sync")]_vars

\* The client has reconnected and synced again (zone 1 is back in the
\* mirror) and still holds the reading pushed before the connection was
\* lost.
C37_Witness ==
    /\ ev.ret = "reconnected"
    /\ ev.frame = HubInfoFrame
    /\ Keys(zones) = {"1"}
    /\ temperatures = <<<<KitchenSensor, "21.5">>>>
    /\ received_all_info


\* C38: after any sequence of dispatched frames
\* get_current_component_temperature(serial) returns the last reading
\* pushed for the serial, or no value when none was pushed or the reading
\* is "N/A", and raises nothing, also for a serial that has a reading and no
\* entry in the Component map.
C38_ComponentTemperatureNeverFails ==
    ev.call = "get_current_component_temperature"
        => /\ ev.failed = "-"
           /\ ev.result = IF /\ ev.arg \in Keys(temperatures)
                             /\ Get(temperatures, ev.arg) # NOT_AVAILABLE
                          THEN Get(temperatures, ev.arg)
                          ELSE None


\* C39: on a working connection async_create_override(mode, type,
\* target_type, target_id) sends one A03 frame and sets mode and type on
\* exactly the mirrored overrides whose target_id and target_type both equal
\* the arguments; it adds and removes no override and leaves every other
\* override as it was.
C39_SavesOverridesOfTheTarget ==
    [][(/\ ev'.call = "async_create_override"
        /\ writer /\ conn = "open"
        /\ writer' /\ conn' = "open")
           => /\ ev'.sent = ADD_OVERRIDE
              /\ ev'.failed = "-"
              /\ Len(overrides') = Len(overrides)
              /\ \A i \in 1..Len(overrides) :
                    LET o == overrides[i][2]
                    IN  overrides'[i] =
                           IF /\ o["target_id"] = ev'.arg[4]
                              /\ o["target_type"] = ev'.arg[3]
                           THEN <<overrides[i][1],
                                  [o EXCEPT !["mode"] = ev'.arg[1],
                                            !["type"] = ev'.arg[2]]>>
                           ELSE overrides[i]]_vars

\* The zones whose week_profile_id names no entry of the Week-profile map.
Dangling ==
    {z \in Keys(zones) : Get(zones, z)["week_profile_id"] \notin Keys(week_profiles)}

ZoneOpcodes ==
    {RESPONSE_ADD_ZONE, RESPONSE_UPDATE_ZONE, RESPONSE_ZONE_INFO, RESPONSE_REMOVE_ZONE}

WeekProfileOpcodes ==
    {RESPONSE_ADD_WEEK_PROFILE, RESPONSE_UPDATE_WEEK_PROFILE, RESPONSE_WEEK_PROFILE_INFO}

\* C40: a remove frame touches no map but its own and follows no reference:
\* a zone remove (S00) leaves the Component map as it was, a week-profile
\* remove (S02) leaves the Zone map as it was, week_profile_id of every zone
\* included, so a zone that named the removed profile now names a missing
\* one; it goes on doing so until a frame for that zone, a frame that
\* stores a week profile, or H00 is dispatched.
C40_RemoveFollowsNoReference ==
    [][/\ ev'.frame \in RemoveFrames =>
             LET f == ev'.frame
             IN  /\ f[1] # RESPONSE_REMOVE_COMPONENT => components' = components
                 /\ f[1] # RESPONSE_REMOVE_ZONE => zones' = zones
                 /\ f[1] # RESPONSE_REMOVE_WEEK_PROFILE => week_profiles' = week_profiles
                 /\ f[1] # RESPONSE_REMOVE_OVERRIDE => overrides' = overrides
                 /\ f[1] = RESPONSE_REMOVE_ZONE =>
                       \A z \in Keys(zones) \ {f[2]} :
                          z \in Keys(zones') /\ Get(zones', z) = Get(zones, z)
                 /\ f[1] = RESPONSE_REMOVE_WEEK_PROFILE =>
                       \A z \in Keys(zones) :
                          Get(zones, z)["week_profile_id"] = f[2] => z \in Dangling'
        /\ \A z \in Dangling \ Dangling' :
              \/ ev'.frame[1] = RESPONSE_SENDING_ALL_INFO
              \/ ev'.frame[1] \in ZoneOpcodes /\ ev'.frame[2] = z
              \/ /\ ev'.frame[1] \in WeekProfileOpcodes
                 /\ ev'.frame[2] = Get(zones, z)["week_profile_id"]]_vars

\* Week profile 2 was removed from a mirror whose zone 1 names it; zone 1 is
\* still mirrored with week_profile_id 2, and no week profile 2 is.
C40_Witness ==
    /\ ev.frame \in RemoveFrames
    /\ ev.frame[1] = RESPONSE_REMOVE_WEEK_PROFILE
    /\ ev.dispatched = RESPONSE_REMOVE_WEEK_PROFILE
    /\ ev.before = Records(State) + 1
    /\ "1" \in Keys(zones)
    /\ Get(zones, "1")["week_profile_id"] = "2"
    /\ "2" \notin Keys(week_profiles)
    /\ "1" \in Dangling
    /\ pc.rx = "read"


=============================================================================
